---- MODULE Spec2Model ----
(***************************************************************************)
(* A model of the GG windowing core of FreeOrion: the Wnd tree             *)
(* (GG/src/Wnd.cpp) and the typed bit-flag registry (GG/GG/Flags.h).       *)
(*                                                                         *)
(* Every Wnd is a node id; the fields of all Wnd objects are the           *)
(* variables below, one function over Nodes per field.  An operation of    *)
(* Wnd is an operator from a "world" (the record of all fields) to the     *)
(* world after it, so that an operation that calls another one is the      *)
(* composition the code performs; the actions apply one whole operation.   *)
(***************************************************************************)
EXTENDS Integers, Sequences, FiniteSets

\* Number of Wnd objects of the model.
NumNodes == 3

Nodes == 1..NumNodes

\* The Layout that HorizontalLayout, VerticalLayout and GridLayout make with
\* Wnd::Create<Layout>: no object until one of them has made it.
Manufactured == NumNodes + 1

\* One more Wnd, which only the callers of the layout functions construct.
Extra == NumNodes + 2

Objs == Nodes \cup {Manufactured, Extra}

\* The empty shared_ptr / weak_ptr.
Null == 0

VARIABLES
    life,                 \* "ctor": constructor running, no shared handle yet;
                          \* "live": owned by a shared handle; "dead": destroyed;
                          \* "none": not constructed
    m_parent,             \* std::weak_ptr<Wnd>    (Null or a node)
    m_children,           \* std::list<std::shared_ptr<Wnd>>
    m_layout,             \* std::weak_ptr<Layout>
    m_containing_layout,  \* std::weak_ptr<Layout>
    m_filters,            \* std::vector<std::weak_ptr<Wnd>>
    m_filtering,          \* std::set<std::weak_ptr<Wnd>, owner_less>
    m_flags,              \* Flags<WndFlag>, as the set of its flags
    m_upperleft,          \* Pt, as <<x, y>>
    m_lowerright,         \* Pt
    m_min_size,           \* Pt
    m_max_size,           \* Pt
    m_done,               \* bool: the flag the modal pump of Run() reads
    gui,                  \* GUI::GetGUI(): its list of modal Wnds, and the
                          \* calls each Run() has made
    instance,             \* FlagSpec<FlagType>::instance(): the registry of a
                          \* flag type, [m_count, m_flags, m_strings]
    s_singleton,          \* HotkeyManager::GetManager(): [m_connections,
                          \* m_signals]
    last                  \* the operation performed last, with what it returned

wndVars == <<life, m_parent, m_children, m_layout, m_containing_layout,
             m_filters, m_filtering, m_flags,
             m_upperleft, m_lowerright, m_min_size, m_max_size, m_done, gui>>

vars == <<wndVars, instance, s_singleton, last>>

\* The HotkeyManager before anything is registered: operator[] makes the empty
\* list of a name that has none, and no name has a signal.
HotkeyNames == {"zoom-in"}
NoHotkeys == [m_connections |-> [name \in HotkeyNames |-> << >>], m_signals |-> {}]

\* The fields of all Wnd objects, as one value.
World ==
    [life |-> life, m_parent |-> m_parent, m_children |-> m_children,
     m_layout |-> m_layout, m_containing_layout |-> m_containing_layout,
     m_filters |-> m_filters, m_filtering |-> m_filtering, m_flags |-> m_flags,
     m_upperleft |-> m_upperleft, m_lowerright |-> m_lowerright,
     m_min_size |-> m_min_size, m_max_size |-> m_max_size,
     m_done |-> m_done, gui |-> gui]

\* The Wnd variables become the world w; no Wnd operation registers a flag.
Becomes(w) ==
    /\ UNCHANGED <<instance, s_singleton>>
    /\ life' = w.life
    /\ m_parent' = w.m_parent
    /\ m_children' = w.m_children
    /\ m_layout' = w.m_layout
    /\ m_containing_layout' = w.m_containing_layout
    /\ m_filters' = w.m_filters
    /\ m_filtering' = w.m_filtering
    /\ m_flags' = w.m_flags
    /\ m_upperleft' = w.m_upperleft
    /\ m_lowerright' = w.m_lowerright
    /\ m_min_size' = w.m_min_size
    /\ m_max_size' = w.m_max_size
    /\ m_done' = w.m_done
    /\ gui' = w.gui

----------------------------------------------------------------------------
\* Sequence helpers.

Range(s) == {s[i] : i \in DOMAIN s}

Without(s, x) == SelectSeq(s, LAMBDA y : y # x)

Count(s, x) == Cardinality({i \in DOMAIN s : s[i] = x})

----------------------------------------------------------------------------
\* Weak references.

\* A weak_ptr locks to its target while a shared handle owns the target, and to
\* the empty pointer once the target is (being) destroyed.
LockAndResetIfExpired(w, ptr) ==
    IF ptr # Null /\ w.life[ptr] = "live" THEN ptr ELSE Null

\* Parent() that follows the weak link without locking it.
ParentUnlocked(w, n) == w.m_parent[n]

Parent(w, n) == LockAndResetIfExpired(w, w.m_parent[n])

GetLayout(w, n) == LockAndResetIfExpired(w, w.m_layout[n])

ContainingLayout(w, n) == LockAndResetIfExpired(w, w.m_containing_layout[n])

\* The Wnd that k calls of Parent() lead to from n, Null when the chain ends
\* before.
RECURSIVE ParentChain(_, _, _)
ParentChain(w, n, k) ==
    IF k = 0 \/ n = Null THEN n ELSE ParentChain(w, Parent(w, n), k - 1)

\* Wnd::UpperLeft, and with it ClientUpperLeft, ClientSize, Left and Top,
\* calls itself on the parent: it returns for n when the chain of parents of
\* n ends, and does not return when the chain runs into a cycle.
Rooted(w, n) == ParentChain(w, n, NumNodes + 2) = Null

\* dynamic_cast<Layout*>(n): the Wnd objects that are Layout objects.
IsLayout(n) == n = NumNodes \/ n = Manufactured

----------------------------------------------------------------------------
\* Tree mutation.

SetParent(w, c, p) == [w EXCEPT !.m_parent[c] = p]

\* DetachChildCore that leaves the layout reference of p as it is.
DetachChildCoreKeepingLayout(w, p, c) ==
    IF c = Null THEN w
    ELSE [w EXCEPT !.m_parent[c] = Null, !.m_containing_layout[c] = Null]

DetachChildCore(w, p, c) ==
    IF c = Null THEN w
    ELSE LET w1 == [w EXCEPT !.m_parent[c] = Null,
                             !.m_containing_layout[c] = Null]
             layout == GetLayout(w1, p)
         IN  IF layout # Null /\ c = layout
             THEN [w1 EXCEPT !.m_layout[p] = Null]
             ELSE w1

\* DetachChild without the test that c is in p's child list.
DetachChildOfAny(w, p, c) ==
    LET w1 == DetachChildCore(w, p, c)
    IN  [w1 EXCEPT !.m_children[p] = Without(w1.m_children[p], c)]

\* Wnd::DetachChild(Wnd*): nothing happens unless c is in p's child list.
DetachChild(w, p, c) ==
    IF c \notin Range(w.m_children[p]) THEN w
    ELSE LET w1 == DetachChildCore(w, p, c)
         IN  [w1 EXCEPT !.m_children[p] = Without(w1.m_children[p], c)]

RECURSIVE DetachEach(_, _, _)
DetachEach(w, p, cs) ==
    IF cs = <<>> THEN w
    ELSE DetachEach(DetachChildCore(w, p, Head(cs)), p, Tail(cs))

\* DetachChildren that clears the list and leaves the children's links.
DetachChildrenKeepingLinks(w, p) ==
    [w EXCEPT !.m_layout[p] = Null, !.m_children[p] = <<>>]

DetachChildren(w, p) ==
    LET w1 == [w EXCEPT !.m_layout[p] = Null]
        w2 == DetachEach(w1, p, w1.m_children[p])
    IN  [w2 EXCEPT !.m_children[p] = <<>>]

\* AttachChild that takes c from its previous parent before it asks for the
\* shared handle of p.
AttachChildDetachingFirst(w, p, c) ==
    IF c = Null THEN w
    ELSE LET old == Parent(w, c)
             w1 == IF old # Null THEN DetachChild(w, old, c) ELSE w
             w2 == SetParent(w1, c, p)
             w3 == IF IsLayout(p)
                   THEN [w2 EXCEPT !.m_containing_layout[c] = p]
                   ELSE w2
         IN  IF w.life[p] # "live" THEN w1
             ELSE [w3 EXCEPT !.m_children[p] = Append(w3.m_children[p], c)]

\* AttachChild that leaves c in the child list of its previous parent.
AttachChildKeepingOldParent(w, p, c) ==
    IF c = Null \/ w.life[p] # "live" THEN w
    ELSE LET w2 == SetParent(w, c, p)
             w3 == IF IsLayout(p)
                   THEN [w2 EXCEPT !.m_containing_layout[c] = p]
                   ELSE w2
         IN  [w3 EXCEPT !.m_children[p] = Append(w3.m_children[p], c)]

\* Wnd::AttachChild.  shared_from_this() is the first statement of the try
\* block: without a live shared handle of p it throws bad_weak_ptr, which is
\* caught, and nothing has been changed.  GUI::Remove(wnd) acts on the GUI's
\* own registries, which are no part of the Wnd tree.
AttachChild(w, p, c) ==
    IF c = Null \/ w.life[p] # "live" THEN w
    ELSE LET old == Parent(w, c)
             w1 == IF old # Null THEN DetachChild(w, old, c) ELSE w
             w2 == SetParent(w1, c, p)
             w3 == IF IsLayout(p)
                   THEN [w2 EXCEPT !.m_containing_layout[c] = p]
                   ELSE w2
         IN  [w3 EXCEPT !.m_children[p] = Append(w3.m_children[p], c)]

----------------------------------------------------------------------------
\* Event filters.

\* Wnd::RemoveEventFilter(t, f): erase the first entry of t's filter list that
\* locks to f, then erase t from f's filtering set.  shared_from_this() throws
\* bad_weak_ptr to the caller when t has no live shared handle; the erase from
\* the filter list has happened by then.
RemoveEventFilter(w, t, f) ==
    IF f = Null THEN w
    ELSE LET hits == {i \in DOMAIN w.m_filters[t] :
                          LockAndResetIfExpired(w, w.m_filters[t][i]) = f}
             first == IF hits = {} THEN 0
                      ELSE CHOOSE i \in hits : \A j \in hits : i <= j
             w1 == IF first = 0 THEN w
                   ELSE [w EXCEPT !.m_filters[t] =
                            SubSeq(@, 1, first - 1) \o SubSeq(@, first + 1, Len(@))]
         IN  IF w.life[t] # "live" THEN w1
             ELSE [w1 EXCEPT !.m_filtering[f] = @ \ {t}]

\* InstallEventFilter without the removal of f that comes first.
InstallEventFilterAppending(w, t, f) ==
    IF f = Null \/ w.life[t] # "live" THEN w
    ELSE [w EXCEPT !.m_filters[t] = Append(@, f),
                   !.m_filtering[f] = @ \cup {t}]

\* Wnd::InstallEventFilter(t, f): f becomes the last filter of t.
InstallEventFilter(w, t, f) ==
    IF f = Null THEN w
    ELSE IF w.life[t] # "live" THEN RemoveEventFilter(w, t, f)
    ELSE LET w1 == RemoveEventFilter(w, t, f)
         IN  [w1 EXCEPT !.m_filters[t] = Append(@, f),
                        !.m_filtering[f] = @ \cup {t}]

----------------------------------------------------------------------------
\* Destruction.

Expired(w, ptr) == ptr = Null \/ w.life[ptr] # "live"

\* A destructor that prunes only the filter lists of the Wnds that d filters,
\* not the filtering sets of the Wnds that filter d.
WndDtorFirstLoopOnly(w, d) ==
    [w EXCEPT !.m_filters =
        [t \in Objs |->
            IF t \in w.m_filtering[d] /\ ~Expired(w, t)
            THEN SelectSeq(w.m_filters[t], LAMBDA x : ~Expired(w, x))
            ELSE w.m_filters[t]]]

\* Wnd::~Wnd, run when the last shared handle of d is gone: every weak_ptr to
\* d is expired by then.  Each round of the first loop rewrites the filter list
\* of one live Wnd that d filters, each round of the second loop the filtering
\* set of one live Wnd that filters d; the rounds do not read what another
\* round writes.
WndDtor(w, d) ==
    [w EXCEPT !.m_filters =
        [t \in Objs |->
            IF t \in w.m_filtering[d] /\ ~Expired(w, t)
            THEN SelectSeq(w.m_filters[t], LAMBDA x : ~Expired(w, x))
            ELSE w.m_filters[t]],
              !.m_filtering =
        [f \in Objs |->
            IF f \in Range(w.m_filters[d]) /\ ~Expired(w, f)
            THEN {x \in w.m_filtering[f] : ~Expired(w, x)}
            ELSE w.m_filtering[f]]]

\* The members of d are destroyed after the destructor's body: the child list
\* releases its handles (a child that another handle owns lives on, its
\* m_parent expired), the weak references of d are gone.
ReleaseMembers(w, d) ==
    [w EXCEPT !.m_children[d] = <<>>,
              !.m_parent[d] = Null,
              !.m_layout[d] = Null,
              !.m_containing_layout[d] = Null,
              !.m_filters[d] = <<>>,
              !.m_filtering[d] = {}]

\* d is owned by the child list of a live Wnd.
OwnedByParent(w, d) ==
    \E q \in Nodes : w.life[q] = "live" /\ d \in Range(w.m_children[q])

DestroyWnd(w, d) ==
    ReleaseMembers(WndDtor([w EXCEPT !.life[d] = "dead"], d), d)

----------------------------------------------------------------------------
\* Geometry.  A Pt is <<x, y>>.

PtAdd(a, b) == <<a[1] + b[1], a[2] + b[2]>>

PtSub(a, b) == <<a[1] - b[1], a[2] - b[2]>>

Max(a, b) == IF a < b THEN b ELSE a

Min(a, b) == IF a < b THEN a ELSE b

Size(w, n) == PtSub(w.m_lowerright[n], w.m_upperleft[n])

Width(w, n) == Size(w, n)[1]

Height(w, n) == Size(w, n)[2]

MinSize(w, n) == w.m_min_size[n]

MaxSize(w, n) == w.m_max_size[n]

\* Wnd::ClientUpperLeft and ClientLowerRight are UpperLeft and LowerRight, so
\* the client size of a Wnd is its size.
ClientSize(w, n) == Size(w, n)

\* One axis clamped against the maximum alone.
ClampAxisMaxOnly(ul, lr, min_sz, max_sz, cur_ul, cur_lr) ==
    IF max_sz < lr - ul
    THEN IF lr # cur_lr THEN <<ul, ul + max_sz>> ELSE <<lr - max_sz, lr>>
    ELSE <<ul, lr>>

\* One axis of ClampRectWithMinAndMaxSize: <<ul, lr>> of the axis, clamped.
\* cur_ul and cur_lr are m_upperleft and m_lowerright on the axis.
ClampAxis(ul, lr, min_sz, max_sz, cur_ul, cur_lr) ==
    IF lr - ul < min_sz
    THEN IF ul # cur_ul THEN <<lr - min_sz, lr>> ELSE <<ul, ul + min_sz>>
    ELSE IF max_sz < lr - ul
    THEN IF lr # cur_lr THEN <<ul, ul + max_sz>> ELSE <<lr - max_sz, lr>>
    ELSE <<ul, lr>>

\* Wnd::ClampRectWithMinAndMaxSize: <<ul, lr>> clamped.
ClampRectWithMinAndMaxSize(w, n, ul, lr) ==
    LET layout == GetLayout(w, n)
        layout_min_sz == PtAdd(MinSize(w, layout),
                               PtSub(Size(w, n), ClientSize(w, n)))
        min_sz == IF layout # Null
                  THEN <<Max(MinSize(w, n)[1], layout_min_sz[1]),
                         Max(MinSize(w, n)[2], layout_min_sz[2])>>
                  ELSE MinSize(w, n)
        max_sz == MaxSize(w, n)
        x == ClampAxis(ul[1], lr[1], min_sz[1], max_sz[1],
                       w.m_upperleft[n][1], w.m_lowerright[n][1])
        y == ClampAxis(ul[2], lr[2], min_sz[2], max_sz[2],
                       w.m_upperleft[n][2], w.m_lowerright[n][2])
    IN  << <<x[1], y[1]>>, <<x[2], y[2]>> >>

\* Wnd::SizeMove.  The installed layout is resized to the new client size when
\* the size has changed (Layout::Resize is Wnd::Resize); the containing layout
\* is told by ChildSizeOrMinSizeChanged, which changes no field of a Wnd.
RECURSIVE SizeMove(_, _, _, _)
\* SizeMove that resizes the installed layout whether or not the size of n
\* has changed.
SizeMovePropagatingAlways(w, n, ul_, lr_) ==
    LET original_sz == Size(w, n)
        resized == original_sz # PtSub(lr_, ul_)
        rect == IF resized THEN ClampRectWithMinAndMaxSize(w, n, ul_, lr_)
                ELSE <<ul_, lr_>>
        w1 == [w EXCEPT !.m_upperleft[n] = rect[1], !.m_lowerright[n] = rect[2]]
        layout == GetLayout(w1, n)
    IN  IF layout # Null /\ layout # n
        THEN [w1 EXCEPT !.m_lowerright[layout] =
                            PtAdd(w1.m_upperleft[layout], ClientSize(w1, n))]
        ELSE w1

SizeMove(w, n, ul_, lr_) ==
    LET original_sz == Size(w, n)
        resized == original_sz # PtSub(lr_, ul_)
        rect == IF resized THEN ClampRectWithMinAndMaxSize(w, n, ul_, lr_)
                ELSE <<ul_, lr_>>
        w1 == [w EXCEPT !.m_upperleft[n] = rect[1], !.m_lowerright[n] = rect[2]]
        size_changed == Size(w1, n) # original_sz
        layout == GetLayout(w1, n)
    IN  IF resized /\ layout # Null /\ size_changed
        THEN SizeMove(w1, layout, w1.m_upperleft[layout],
                      PtAdd(w1.m_upperleft[layout], ClientSize(w1, n)))
        ELSE w1

Resize(w, n, sz) == SizeMove(w, n, w.m_upperleft[n], PtAdd(w.m_upperleft[n], sz))

MoveTo(w, n, pt) == SizeMove(w, n, pt, PtAdd(pt, Size(w, n)))

\* OffsetMove that leaves the lower right corner where it is.
OffsetMoveUpperLeftOnly(w, n, pt) ==
    SizeMove(w, n, PtAdd(w.m_upperleft[n], pt), w.m_lowerright[n])

OffsetMove(w, n, pt) ==
    SizeMove(w, n, PtAdd(w.m_upperleft[n], pt), PtAdd(w.m_lowerright[n], pt))

SetMinSize(w, n, sz) ==
    LET w1 == [w EXCEPT !.m_min_size[n] = sz]
    IN  IF Width(w1, n) < sz[1] \/ Height(w1, n) < sz[2]
        THEN Resize(w1, n, <<Max(Width(w1, n), sz[1]), Max(Height(w1, n), sz[2])>>)
        ELSE w1

SetMaxSize(w, n, sz) ==
    LET w1 == [w EXCEPT !.m_max_size[n] = sz]
    IN  IF sz[1] < Width(w1, n) \/ sz[2] < Height(w1, n)
        THEN Resize(w1, n, <<Min(Width(w1, n), sz[1]), Min(Height(w1, n), sz[2])>>)
        ELSE w1

----------------------------------------------------------------------------
\* Flag types and their registry (GG/GG/Flags.h).  A FlagType and a Flags are
\* their m_value and m_flags, an unsigned short.

\* std::numeric_limits<unsigned short>::digits
digits == 16

Pow2(i) == 2^i

\* Bit i of num.
BitAt(num, i) == (num \div Pow2(i)) % 2

\* detail::OneBits: the loop over the bits of num, lowest first.
RECURSIVE OneBitsFrom(_, _)
OneBitsFrom(num, i) ==
    IF i = digits THEN 0
    ELSE (IF num % 2 = 1 THEN 1 ELSE 0) + OneBitsFrom(num \div 2, i + 1)

OneBits(num) == OneBitsFrom(num, 0)

\* a & b and a | b on unsigned short, bit i of the result from the lowest
\* bits of a and b shifted right i times; the bits above the highest bit of a
\* and b are 0.
RECURSIVE BitAndFrom(_, _, _)
BitAndFrom(a, b, i) ==
    IF i = digits \/ (a = 0 /\ b = 0) THEN 0
    ELSE (a % 2) * (b % 2) + 2 * BitAndFrom(a \div 2, b \div 2, i + 1)

BitAnd(a, b) == BitAndFrom(a, b, 0)

RECURSIVE BitOrFrom(_, _, _)
BitOrFrom(a, b, i) ==
    IF i = digits \/ (a = 0 /\ b = 0) THEN 0
    ELSE (IF (a % 2) + (b % 2) > 0 THEN 1 ELSE 0)
             + 2 * BitOrFrom(a \div 2, b \div 2, i + 1)

BitOr(a, b) == BitOrFrom(a, b, 0)

\* A FlagSpec before any insert.  Of the arrays m_flags and m_strings the
\* first m_count elements are kept: no member reads the others.
EmptyFlagSpec == [m_count |-> 0, m_flags |-> <<>>, m_strings |-> <<>>]

\* What a call returned or threw.
Returned(v) == [threw |-> "none", value |-> v]

Threw(e) == [threw |-> e]

\* FlagSpec::contains
contains(spec, flag) == \E idx \in 1..spec.m_count : spec.m_flags[idx] = flag

\* FlagSpec::ToString: the string at the first index that holds flag.
ToString(spec, flag) ==
    IF \E idx \in 1..spec.m_count : spec.m_flags[idx] = flag
    THEN Returned(spec.m_strings[CHOOSE idx \in 1..spec.m_count :
                      /\ spec.m_flags[idx] = flag
                      /\ \A j \in 1..(idx - 1) : spec.m_flags[j] # flag])
    ELSE Threw("UnknownFlag")

\* FlagSpec::FromString: the flag at the first index that holds str.
FromString(spec, str) ==
    IF \E idx \in 1..spec.m_count : spec.m_strings[idx] = str
    THEN Returned(spec.m_flags[CHOOSE idx \in 1..spec.m_count :
                      /\ spec.m_strings[idx] = str
                      /\ \A j \in 1..(idx - 1) : spec.m_strings[j] # str])
    ELSE Threw("UnknownString")

\* FlagSpec::insert without the test of m_count against digits.
insertUnbounded(spec, flag, name) ==
    IF \E idx \in 1..spec.m_count : spec.m_flags[idx] = flag
    THEN [spec |-> spec, threw |-> "invalid_argument"]
    ELSE [spec |-> [m_count |-> spec.m_count + 1,
                    m_flags |-> Append(spec.m_flags, flag),
                    m_strings |-> Append(spec.m_strings, name)],
          threw |-> "none"]

\* FlagSpec::insert: the registry after the call, and what the call threw.
insert(spec, flag, name) ==
    IF spec.m_count >= digits
    THEN [spec |-> spec, threw |-> "runtime_error"]
    ELSE IF \E idx \in 1..spec.m_count : spec.m_flags[idx] = flag
    THEN [spec |-> spec, threw |-> "invalid_argument"]
    ELSE [spec |-> [m_count |-> spec.m_count + 1,
                    m_flags |-> Append(spec.m_flags, flag),
                    m_strings |-> Append(spec.m_strings, name)],
          threw |-> "none"]

\* The arithmetic complement of flags.
OpComplementOfBits(spec, flags) == (Pow2(digits) - 1) - flags

\* operator~(Flags): the loop over the registry, retval after the flags from
\* index idx on.  "flag & flags" makes a Flags of flag, which is registered.
RECURSIVE OpComplementFrom(_, _, _, _)
OpComplementFrom(spec, flags, idx, retval) ==
    IF idx > spec.m_count THEN retval
    ELSE LET flag == spec.m_flags[idx]
         IN  OpComplementFrom(spec, flags, idx + 1,
                              IF BitAnd(flag, flags) = 0 THEN BitOr(retval, flag)
                              ELSE retval)

OpComplement(spec, flags) == OpComplementFrom(spec, flags, 1, 0)

----------------------------------------------------------------------------
\* Construction.

\* The WndFlag values a Wnd of the model is constructed with.
CtorFlags(n) ==
    CASE n = 2 -> {"DRAGABLE"}
      [] n = 3 -> {"INTERACTIVE"}
      [] OTHER -> {}

\* The flags RegisterWndFlags registers, but for NO_WND_FLAGS, which has no
\* bit.
RegisteredWndFlags ==
    {"INTERACTIVE", "REPEAT_BUTTON_DOWN", "DRAGABLE", "RESIZABLE",
     "ONTOP", "MODAL", "REPEAT_KEY_PRESS"}

\* Wnd::ValidateFlags: with MODAL and ONTOP together, m_flags &= ~ONTOP, where
\* ~ONTOP is operator~: the registered flags other than ONTOP.
ValidateFlags(fl) ==
    IF "MODAL" \in fl /\ "ONTOP" \in fl
    THEN fl \cap (RegisteredWndFlags \ {"ONTOP"})
    ELSE fl

NoOp == [op |-> "none"]

\* The GUI before any Run(): no modal Wnd, no call made.
NoModals == [modals |-> <<>>, calls |-> [n \in Objs |-> <<>>]]

\* The sizes a Wnd has until SetMinSize and SetMaxSize are called: no lower
\* and, for every size of the model, no upper limit.
DefaultMinSize == <<0, 0>>

DefaultMaxSize == <<1073741824, 1073741824>>

\* All Wnds in the state `state`, each constructed by Wnd(0, 0, 1, 1, flags),
\* with no relation between them.
InitWnds(state) ==
    /\ life = [n \in Objs |-> IF n = Manufactured THEN "none" ELSE state]
    /\ m_parent = [n \in Objs |-> Null]
    /\ m_children = [n \in Objs |-> <<>>]
    /\ m_layout = [n \in Objs |-> Null]
    /\ m_containing_layout = [n \in Objs |-> Null]
    /\ m_filters = [n \in Objs |-> <<>>]
    /\ m_filtering = [n \in Objs |-> {}]
    /\ m_flags = [n \in Objs |-> ValidateFlags(CtorFlags(n))]
    /\ m_upperleft = [n \in Objs |-> <<0, 0>>]
    /\ m_lowerright = [n \in Objs |-> <<1, 1>>]
    /\ m_min_size = [n \in Objs |-> DefaultMinSize]
    /\ m_max_size = [n \in Objs |-> DefaultMaxSize]
    /\ m_done = [n \in Objs |-> FALSE]
    /\ gui = NoModals
    /\ instance = EmptyFlagSpec
    /\ s_singleton = NoHotkeys

----------------------------------------------------------------------------
\* Event dispatch.

Interactive(w, n) == "INTERACTIVE" \in w.m_flags[n]

Dragable(w, n) == "DRAGABLE" \in w.m_flags[n]

\* The event types of the switch in Wnd::HandleEvent.
ButtonEvents ==
    {"LButtonDown", "LDrag", "LButtonUp", "LClick", "LDoubleClick",
     "MButtonDown", "MDrag", "MButtonUp", "MClick", "MDoubleClick",
     "RButtonDown", "RDrag", "RButtonUp", "RClick", "RDoubleClick"}

MouseEvents == {"MouseEnter", "MouseHere", "MouseLeave", "MouseWheel"}

DragDropEvents ==
    {"DragDropEnter", "DragDropHere", "CheckDrops", "DragDropLeave", "DragDroppedOn"}

KeyEvents == {"KeyPress", "KeyRelease", "TextInput"}

NotifyEvents == {"GainingFocus", "LosingFocus", "TimerFiring"}

EventTypes ==
    ButtonEvents \cup MouseEvents \cup DragDropEvents \cup KeyEvents \cup NotifyEvents

\* The Wnd classes of the model that override EventFilter to consume every
\* event; Wnd::EventFilter itself returns false.
ConsumingFilters == {2}

EventFilter(f, t, ev) == f \in ConsumingFilters

\* What a typed handler did: the world after it, and whether it left by
\* ForwardEventToParent(), that is by throwing ForwardToParentException.
Handled(w) == [world |-> w, forward |-> FALSE]

Forwarded(w) == [world |-> w, forward |-> TRUE]

\* A handler that forwards whatever the flags of the Wnd are.
ForwardAlways(w, n) == Forwarded(w)

\* The handlers whose body is "if (!Interactive()) ForwardEventToParent();".
ForwardUnlessInteractive(w, n) ==
    IF ~Interactive(w, n) THEN Forwarded(w) ELSE Handled(w)

\* Default handlers of which the double click handlers do nothing.
DefaultHandlerDoubleClickIgnored(w, n, ev, move) ==
    CASE ev = "LDrag" ->
            IF Dragable(w, n) THEN Handled(OffsetMove(w, n, move))
            ELSE IF ~Interactive(w, n) THEN Forwarded(w)
            ELSE Handled(w)
      [] ev \in {"LDoubleClick", "MDoubleClick", "RDoubleClick"} -> Handled(w)
      [] ev = "DragDroppedOn" ->
            IF ~Interactive(w, n) /\ Parent(w, n) # Null THEN Forwarded(w)
            ELSE Handled(w)
      [] ev \in NotifyEvents -> Handled(w)
      [] OTHER -> ForwardUnlessInteractive(w, n)

\* The default handler of Wnd that the switch calls for ev.  A double click
\* calls the click handler of its button.  DragDropHere and CheckDrops reach
\* DropsAcceptable, which only writes the event's own map, on an interactive
\* Wnd alone.
RECURSIVE DefaultHandler(_, _, _, _)
DefaultHandler(w, n, ev, move) ==
    CASE ev = "LDrag" ->
            IF Dragable(w, n) THEN Handled(OffsetMove(w, n, move))
            ELSE IF ~Interactive(w, n) THEN Forwarded(w)
            ELSE Handled(w)
      [] ev = "LDoubleClick" -> DefaultHandler(w, n, "LClick", move)
      [] ev = "MDoubleClick" -> DefaultHandler(w, n, "MClick", move)
      [] ev = "RDoubleClick" -> DefaultHandler(w, n, "RClick", move)
      [] ev = "DragDroppedOn" ->
            IF ~Interactive(w, n) /\ Parent(w, n) # Null THEN Forwarded(w)
            ELSE Handled(w)
      [] ev \in NotifyEvents -> Handled(w)
      [] OTHER -> ForwardUnlessInteractive(w, n)

\* The lambda of HandleEvent that consults every filter, whatever the earlier
\* ones answered.
FilterLambdaUnguarded(acc, f, t, ev) ==
    [filtered |-> EventFilter(f, t, ev),
     log |-> Append(acc.log, [k |-> "filter", at |-> t, by |-> f])]

\* The lambda HandleEvent gives ProcessThenRemoveExpiredPtrs: acc.filtered is
\* the captured flag, acc.log the calls of EventFilter made so far.
FilterLambda(acc, f, t, ev) ==
    IF ~acc.filtered
    THEN [filtered |-> EventFilter(f, t, ev),
          log |-> Append(acc.log, [k |-> "filter", at |-> t, by |-> f])]
    ELSE acc

\* ProcessThenRemoveExpiredPtrs(m_filters, lambda): the lambda is applied to
\* the entries that lock, in the order of the list.
RECURSIVE ProcessPtrs(_, _, _, _, _)
ProcessPtrs(w, acc, fs, t, ev) ==
    IF fs = <<>> THEN acc
    ELSE LET f == LockAndResetIfExpired(w, Head(fs))
         IN  ProcessPtrs(w, IF f # Null THEN FilterLambda(acc, f, t, ev) ELSE acc,
                         Tail(fs), t, ev)

\* ... and the expired entries are removed from the list.
RemoveExpiredPtrs(w, t) ==
    [w EXCEPT !.m_filters[t] = SelectSeq(@, LAMBDA x : ~Expired(w, x))]

\* HandleEvent without the catch clause.
RECURSIVE HandleEventNoCatch(_, _, _, _, _)
HandleEventNoCatch(w, n, ev, move, seen) ==
    LET f == ProcessPtrs(w, [filtered |-> FALSE, log |-> <<>>], w.m_filters[n], n, ev)
        w1 == RemoveExpiredPtrs(w, n)
        h == DefaultHandler(w1, n, ev, move)
        log == Append(f.log, [k |-> "handler", at |-> n, by |-> n])
    IN  IF f.filtered
        THEN [world |-> w1, log |-> f.log, outcome |-> "returned"]
        ELSE [world |-> h.world, log |-> log,
              outcome |-> IF h.forward THEN "escaped" ELSE "returned"]

\* Wnd::HandleEvent(event) on n.  The result is the world after it, the calls
\* of EventFilter and of typed handlers it made, in order, and how it ended:
\*   "returned"  it returned to its caller;
\*   "escaped"   a ForwardToParentException left it;
\*   "diverges"  the call for the parent is a call this dispatch has made
\*               before, in the same world: the recursion has no end.
\* seen is the set of Wnds whose HandleEvent is on the call stack.
RECURSIVE HandleEvent(_, _, _, _, _)
HandleEvent(w, n, ev, move, seen) ==
    LET f == ProcessPtrs(w, [filtered |-> FALSE, log |-> <<>>], w.m_filters[n], n, ev)
        w1 == RemoveExpiredPtrs(w, n)
        h == DefaultHandler(w1, n, ev, move)
        log == Append(f.log, [k |-> "handler", at |-> n, by |-> n])
        p == Parent(h.world, n)
    IN  IF f.filtered
        THEN [world |-> w1, log |-> f.log, outcome |-> "returned"]
        ELSE IF ~h.forward
        THEN [world |-> h.world, log |-> log, outcome |-> "returned"]
        ELSE IF p = Null
        THEN [world |-> h.world, log |-> log, outcome |-> "returned"]
        ELSE IF p \in seen \cup {n}
        THEN [world |-> h.world, log |-> log, outcome |-> "diverges"]
        ELSE LET r == HandleEvent(h.world, p, ev, move, seen \cup {n})
             IN  [world |-> r.world, log |-> log \o r.log, outcome |-> r.outcome]

----------------------------------------------------------------------------
\* The Wnd tree: construction, attach, detach, destruction.

Init ==
    /\ InitWnds("ctor")
    /\ last = NoOp

\* Wnd::Create<T>: the constructor has returned and a shared handle owns n.
Create(n) ==
    /\ life[n] = "ctor"
    /\ life' = [life EXCEPT ![n] = "live"]
    /\ UNCHANGED <<m_parent, m_children, m_layout, m_containing_layout,
                   m_filters, m_filtering, m_flags,
                   m_upperleft, m_lowerright, m_min_size, m_max_size,
                   m_done, gui, instance, s_singleton>>
    /\ last' = [op |-> "Create", p |-> n, c |-> Null]

\* p.AttachChild(c): c is a shared handle, so c is live; p is any object whose
\* member functions can run.
DoAttachChild(p, c) ==
    /\ life[p] \in {"ctor", "live"}
    /\ life[c] = "live"
    /\ Becomes(AttachChild(World, p, c))
    /\ last' = [op |-> "AttachChild", p |-> p, c |-> c, old |-> Parent(World, c)]

DoDetachChild(p, c) ==
    /\ life[p] = "live"
    /\ life[c] = "live"
    /\ Becomes(DetachChild(World, p, c))
    /\ last' = [op |-> "DetachChild", p |-> p, c |-> c]

DoDetachChildren(p) ==
    /\ life[p] = "live"
    /\ Becomes(DetachChildren(World, p))
    /\ last' = [op |-> "DetachChildren", p |-> p, c |-> Null]

\* The last shared handle of d is dropped.
Destroy(d) ==
    /\ life[d] = "live"
    /\ ~OwnedByParent(World, d)
    /\ Becomes(DestroyWnd(World, d))
    /\ last' = [op |-> "Destroy", p |-> d,
                filters |-> m_filters[d], filtering |-> m_filtering[d]]

Next ==
    \/ \E n \in Nodes : Create(n)
    \/ \E p, c \in Nodes : DoAttachChild(p, c)
    \/ \E p, c \in Nodes : DoDetachChild(p, c)
    \/ \E p \in Nodes : DoDetachChildren(p)
    \/ \E d \in Nodes : Destroy(d)

Spec == Init /\ [][Next]_vars

----------------------------------------------------------------------------
\* Claims about the Wnd tree, checked under Spec.

\* C1: after p.AttachChild(c) on a p that a live shared handle owns, c's parent
\* is p, c occurs exactly once in p's child list, as its last element, and c is
\* in the child list of no other Wnd: not of its previous parent, and so only
\* of the second of two parents it is attached to in sequence.
C1_AttachChildReparents ==
    [][(last'.op = "AttachChild" /\ life[last'.p] = "live") =>
          LET p == last'.p
              c == last'.c
          IN  /\ Parent(World', c) = p
              /\ Count(m_children'[p], c) = 1
              /\ m_children'[p][Len(m_children'[p])] = c
              /\ \A q \in Nodes \ {p} : c \notin Range(m_children'[q])]_vars

\* C1's case: c, a child of Wnd 1, has just been attached to Wnd 2, which has
\* an older child as well.
C1_Witness ==
    /\ last.op = "AttachChild"
    /\ last.p = 2
    /\ last.c = 3
    /\ last.old = 1
    /\ m_children[2] = <<1, 3>>
    /\ m_children[1] = <<>>

----------------------------------------------------------------------------
\* Event filters and destruction: SpecFilter.

\* Bound on the number of filter entries of all Wnds together.
MaxFilterEdges == 3

RECURSIVE SumLen(_, _)
SumLen(f, S) ==
    IF S = {} THEN 0
    ELSE LET x == CHOOSE y \in S : TRUE IN Len(f[x]) + SumLen(f, S \ {x})

FilterEdges == SumLen(m_filters, Nodes)

InitFilter ==
    /\ InitWnds("live")
    /\ last = NoOp

DoInstallEventFilter(t, f) ==
    /\ life[t] = "live"
    /\ life[f] = "live"
    /\ f \in Range(m_filters[t]) \/ FilterEdges < MaxFilterEdges
    /\ Becomes(InstallEventFilter(World, t, f))
    /\ last' = [op |-> "InstallEventFilter", p |-> t, c |-> f]

DoRemoveEventFilter(t, f) ==
    /\ life[t] = "live"
    /\ life[f] = "live"
    /\ Becomes(RemoveEventFilter(World, t, f))
    /\ last' = [op |-> "RemoveEventFilter", p |-> t, c |-> f]

NextFilter ==
    \/ \E t, f \in Nodes : DoInstallEventFilter(t, f)
    \/ \E t, f \in Nodes : DoRemoveEventFilter(t, f)
    \/ \E d \in Nodes : Destroy(d)

SpecFilter == InitFilter /\ [][NextFilter]_vars

\* C2: when a Wnd d is destroyed, no surviving Wnd keeps an entry for d in its
\* filter list or in its filtering set, and the surviving Wnds keep every other
\* entry, in order.
C2_DestroyUnlinksFilters ==
    [][last'.op = "Destroy" =>
          LET d == last'.p
          IN  \A a \in Nodes \ {d} :
                  /\ d \notin Range(m_filters'[a])
                  /\ d \notin m_filtering'[a]
                  /\ m_filters'[a] = Without(m_filters[a], d)
                  /\ m_filtering'[a] = m_filtering[a] \ {d}]_vars

\* C2's case: Wnd 2, which filtered Wnd 1 and was filtered by Wnd 3, has been
\* destroyed; Wnd 1 keeps its other filter, Wnd 3.
C2_Witness ==
    /\ last.op = "Destroy"
    /\ last.p = 2
    /\ 1 \in last.filtering
    /\ 3 \in Range(last.filters)
    /\ life[1] = "live"
    /\ life[3] = "live"
    /\ m_filters[1] = <<3>>
    /\ m_filtering[3] = {1}

----------------------------------------------------------------------------
\* Event dispatch over a tree with filters: SpecEvent.

\* Bound on the number of parent links and filter entries together.
MaxEdges == 2

\* Bound on the coordinates a drag may move a Wnd to.
MaxDrag == 1

\* The DragMove() of the drag events the pump delivers.
DragMoves == {<<1, 1>>}

\* Wnds constructed with the same flags dispatch alike: the scene of SpecEvent
\* has one Wnd for each set of flags, the others are never constructed.
EventCast == {n \in Nodes : \A m \in 1..(n - 1) : CtorFlags(m) # CtorFlags(n)}

\* The events the pump delivers: one that the default handler forwards unless
\* the Wnd is interactive, and the one that moves a dragable Wnd.  The claims
\* speak of every event type in every scene that is reached.
PumpedEvents == {"LClick", "LDrag"}

ParentEdges == Cardinality({n \in Nodes : Parent(World, n) # Null})

InitEvent ==
    /\ InitWnds("ctor")
    /\ last = NoOp

EvCreate(n) ==
    /\ n \in EventCast
    /\ \A m \in 1..(n - 1) : life[m] = "live"
    /\ Create(n)

EvAttachChild(p, c) ==
    /\ life[p] = "live"
    /\ life[c] = "live"
    /\ Parent(World, c) # Null \/ ParentEdges + FilterEdges < MaxEdges
    /\ Becomes(AttachChild(World, p, c))
    /\ last' = [op |-> "AttachChild"]

EvInstallEventFilter(t, f) ==
    /\ life[t] = "live"
    /\ life[f] = "live"
    /\ f \in Range(m_filters[t]) \/ ParentEdges + FilterEdges < MaxEdges
    /\ Becomes(InstallEventFilter(World, t, f))
    /\ last' = [op |-> "InstallEventFilter"]

\* The event pump calls n.HandleEvent(event).  A dispatch that diverges has no
\* state after it.
DoHandleEvent(n, ev, move) ==
    /\ life[n] = "live"
    /\ LET r == HandleEvent(World, n, ev, move, {})
       IN  /\ r.outcome # "diverges"
           /\ \A x \in Nodes : r.world.m_upperleft[x][1] \in 0..MaxDrag
           /\ Becomes(r.world)
           /\ last' = [op |-> "HandleEvent", p |-> n, ev |-> ev]

NextEvent ==
    \/ \E n \in Nodes : EvCreate(n)
    \/ \E p, c \in Nodes : EvAttachChild(p, c)
    \/ \E t, f \in Nodes : EvInstallEventFilter(t, f)
    \/ \E n \in Nodes, ev \in PumpedEvents, move \in DragMoves : DoHandleEvent(n, ev, move)

SpecEvent == InitEvent /\ [][NextEvent]_vars

----------------------------------------------------------------------------
\* Claims about event dispatch, checked under SpecEvent.

\* The events whose default handler can forward to the parent: pointer, key,
\* text-input and drag-drop events.
BubblingEvents == EventTypes \ NotifyEvents

\* n.HandleEvent(event) called by the pump.
Dispatch(n, ev, move) == HandleEvent(World, n, ev, move, {})

\* The Wnds whose typed handler a dispatch called, in order.
RECURSIVE Visited(_)
Visited(log) ==
    IF log = <<>> THEN <<>>
    ELSE IF Head(log).k = "handler" THEN <<Head(log).at>> \o Visited(Tail(log))
    ELSE Visited(Tail(log))

\* No filter that the dispatch consulted consumed the event.
NothingConsumed(log, ev) ==
    \A i \in DOMAIN log : log[i].k = "filter" => ~EventFilter(log[i].by, log[i].at, ev)

\* The calls a Wnd makes for an event nothing consumes: its live filters in the
\* order of its list, then its typed handler.
CallsAt(n) ==
    [i \in 1..Len(m_filters[n]) |-> [k |-> "filter", at |-> n, by |-> m_filters[n][i]]]
        \o <<[k |-> "handler", at |-> n, by |-> n]>>

RECURSIVE CallsAlong(_)
CallsAlong(v) == IF v = <<>> THEN <<>> ELSE CallsAt(Head(v)) \o CallsAlong(Tail(v))

\* A Wnd at which the walk of C3's statement ends.
StopsWalk(n) == Interactive(World, n) \/ Parent(World, n) = Null

\* A Wnd at which the walk ends: an LDrag moves a dragable Wnd instead of
\* being forwarded.
StopsWalkOrDrags(n, ev) == StopsWalk(n) \/ (ev = "LDrag" /\ Dragable(World, n))

\* C3: for a pointer, key, text-input or drag-drop event that no filter
\* consumes, HandleEvent on N calls N's filters and then N's handler; from a
\* Wnd that is not interactive, has a live parent and has not moved itself for
\* an LDrag, it goes on to that parent alone, filters first and handler next;
\* when it returns, the last Wnd it called is interactive, or has no parent, or
\* is a dragable Wnd given an LDrag, and no Wnd above that one was called; when
\* the parent links of Wnds that all forward form a cycle, it does not return.
C3_BubblingWalk ==
    \A n \in Nodes, ev \in BubblingEvents, move \in DragMoves :
        life[n] = "live" =>
            LET r == Dispatch(n, ev, move)
                v == Visited(r.log)
            IN  NothingConsumed(r.log, ev) =>
                    /\ v # <<>> /\ v[1] = n
                    /\ \A i \in 1..(Len(v) - 1) :
                           ~StopsWalkOrDrags(v[i], ev) /\ v[i + 1] = Parent(World, v[i])
                    /\ r.log = CallsAlong(v)
                    /\ r.outcome = "returned" <=> StopsWalkOrDrags(v[Len(v)], ev)
                    /\ r.outcome = "diverges" <=>
                           (~StopsWalkOrDrags(v[Len(v)], ev)
                                /\ Parent(World, v[Len(v)]) \in Range(v))

\* C3 as stated: the walk goes on from every Wnd that is not interactive and
\* has a live parent, and ends only at an interactive or a parentless Wnd.
C3_WalkEndsOnlyAtInteractiveOrRoot ==
    \A n \in Nodes, ev \in BubblingEvents, move \in DragMoves :
        life[n] = "live" =>
            LET r == Dispatch(n, ev, move)
                v == Visited(r.log)
            IN  NothingConsumed(r.log, ev) =>
                    /\ v # <<>> /\ v[1] = n
                    /\ \A i \in 1..(Len(v) - 1) :
                           ~StopsWalk(v[i]) /\ v[i + 1] = Parent(World, v[i])
                    /\ r.outcome = "returned" => StopsWalk(v[Len(v)])

\* C3's case: a click given to Wnd 1 has gone up to its parent, the
\* interactive Wnd 3, and not to 3's own parent, Wnd 2.
C3_Witness ==
    /\ last = [op |-> "HandleEvent", p |-> 1, ev |-> "LClick"]
    /\ m_parent[1] = 3
    /\ m_parent[3] = 2
    /\ Dispatch(1, "LClick", <<1, 1>>).log =
           <<[k |-> "handler", at |-> 1, by |-> 1],
             [k |-> "handler", at |-> 3, by |-> 3]>>

\* C4 as stated: for every event type and every Wnd, HandleEvent returns to
\* its caller.
C4_HandleEventReturns ==
    \A n \in Nodes, ev \in EventTypes, move \in DragMoves :
        life[n] = "live" => Dispatch(n, ev, move).outcome = "returned"

\* C5: HandleEvent on a Wnd that is not interactive and has no parent and no
\* filters returns for every event type, having called the Wnd's handler and
\* nothing else; nothing changes, but for the move of a dragable Wnd by an
\* LDrag.
C5_BubbleToNowhere ==
    \A n \in Nodes, ev \in EventTypes, move \in DragMoves :
        (/\ life[n] = "live"
         /\ ~Interactive(World, n)
         /\ Parent(World, n) = Null
         /\ m_filters[n] = <<>>) =>
            LET r == Dispatch(n, ev, move)
            IN  /\ r.outcome = "returned"
                /\ r.log = <<[k |-> "handler", at |-> n, by |-> n]>>
                /\ r.world = IF ev = "LDrag" /\ Dragable(World, n)
                             THEN OffsetMove(World, n, move)
                             ELSE World

\* C5's case: a click has been given to Wnd 1, which is not interactive and
\* has no parent and no filter, but has a child and filters another Wnd.
C5_Witness ==
    /\ last = [op |-> "HandleEvent", p |-> 1, ev |-> "LClick"]
    /\ m_parent[1] = Null
    /\ m_filters[1] = <<>>
    /\ m_children[1] = <<2>>
    /\ m_filters[3] = <<1>>
    /\ ~Interactive(World, 1)

\* The index of the first filter of fs that consumes ev for t, or 0.
FirstConsumer(fs, t, ev) ==
    IF \E i \in DOMAIN fs : EventFilter(fs[i], t, ev)
    THEN CHOOSE i \in DOMAIN fs :
             /\ EventFilter(fs[i], t, ev)
             /\ \A j \in 1..(i - 1) : ~EventFilter(fs[j], t, ev)
    ELSE 0

\* C6: HandleEvent on N calls EventFilter of N's filters in the order of N's
\* list; when one of them consumes the event, the filters after it are not
\* called, no handler of N or of any other Wnd is called, nothing changes and
\* the call returns; when none does, N's handler is the call after the last
\* filter.
C6_FiltersInOrder ==
    \A n \in Nodes, ev \in EventTypes, move \in DragMoves :
        life[n] = "live" =>
            LET r == Dispatch(n, ev, move)
                fs == m_filters[n]
                k == FirstConsumer(fs, n, ev)
                called == IF k = 0 THEN Len(fs) ELSE k
            IN  /\ Len(r.log) >= called
                /\ \A i \in 1..called : r.log[i] = [k |-> "filter", at |-> n, by |-> fs[i]]
                /\ k # 0 => /\ Len(r.log) = k
                            /\ r.outcome = "returned"
                            /\ r.world = World
                /\ k = 0 => /\ Len(r.log) > called
                            /\ r.log[called + 1] = [k |-> "handler", at |-> n, by |-> n]

\* C6's case: a click has been given to Wnd 1, which has the filters 3 and 2
\* in this order; 3 lets the event pass and 2 consumes it.
C6_Witness ==
    /\ last = [op |-> "HandleEvent", p |-> 1, ev |-> "LClick"]
    /\ m_filters[1] = <<3, 2>>
    /\ Dispatch(1, "LClick", <<1, 1>>).log =
           <<[k |-> "filter", at |-> 1, by |-> 3],
             [k |-> "filter", at |-> 1, by |-> 2]>>

----------------------------------------------------------------------------
\* Geometry of one Wnd without a layout: SpecGeom and SpecGeomSigned.

\* Bound on the widths that are requested, and set as minimum and maximum.
MaxLen == 2

XLens == 0..MaxLen

YLens == {0, 1}

\* The sizes the callers of SpecGeom pass: no component is negative.
SizeArgs == {<<a, b>> : a \in XLens, b \in YLens}

\* The sizes the callers of SpecGeomSigned pass: X and Y are signed.
SignedSizeArgs == SizeArgs \cup {<<0 - 1, b>> : b \in YLens}

\* The points the callers pass as upper left corner, and the moves.
Positions == {<<0, 0>>, <<1, 0>>}

Offsets == {<<1, 0>>, <<0 - 1, 0>>}

\* Wnd 1 has been constructed by Wnd(0, 0, w, h, flags) and is live.
InitGeomOf(sizes) ==
    /\ life = [n \in Objs |-> IF n = 1 THEN "live"
                                ELSE IF n = Manufactured THEN "none" ELSE "ctor"]
    /\ m_parent = [n \in Objs |-> Null]
    /\ m_children = [n \in Objs |-> <<>>]
    /\ m_layout = [n \in Objs |-> Null]
    /\ m_containing_layout = [n \in Objs |-> Null]
    /\ m_filters = [n \in Objs |-> <<>>]
    /\ m_filtering = [n \in Objs |-> {}]
    /\ m_flags = [n \in Objs |-> ValidateFlags(CtorFlags(n))]
    /\ m_upperleft = [n \in Objs |-> <<0, 0>>]
    /\ \E sz \in sizes : m_lowerright = [n \in Objs |-> IF n = 1 THEN sz ELSE <<1, 1>>]
    /\ m_min_size = [n \in Objs |-> DefaultMinSize]
    /\ m_max_size = [n \in Objs |-> DefaultMaxSize]
    /\ m_done = [n \in Objs |-> FALSE]
    /\ gui = NoModals
    /\ instance = EmptyFlagSpec
    /\ s_singleton = NoHotkeys
    /\ last = NoOp

\* The corners the model follows a Wnd to.
InView(w) == w.m_upperleft[1][1] \in (0 - 1)..1 /\ w.m_upperleft[1][2] \in {0, 1}

DoResize(n, sz) ==
    /\ InView(Resize(World, n, sz))
    /\ Becomes(Resize(World, n, sz))
    /\ last' = [op |-> "Resize", sz |-> sz]

DoSizeMove(n, ul, lr) ==
    /\ InView(SizeMove(World, n, ul, lr))
    /\ Becomes(SizeMove(World, n, ul, lr))
    /\ last' = [op |-> "SizeMove", sz |-> PtSub(lr, ul)]

DoMoveTo(n, pt) ==
    /\ InView(MoveTo(World, n, pt))
    /\ Becomes(MoveTo(World, n, pt))
    /\ last' = [op |-> "MoveTo"]

DoOffsetMove(n, pt) ==
    /\ InView(OffsetMove(World, n, pt))
    /\ Becomes(OffsetMove(World, n, pt))
    /\ last' = [op |-> "OffsetMove"]

DoSetMinSize(n, sz) ==
    /\ InView(SetMinSize(World, n, sz))
    /\ Becomes(SetMinSize(World, n, sz))
    /\ last' = [op |-> "SetMinSize"]

DoSetMaxSize(n, sz) ==
    /\ InView(SetMaxSize(World, n, sz))
    /\ Becomes(SetMaxSize(World, n, sz))
    /\ last' = [op |-> "SetMaxSize"]

GeomStep(sizes) ==
    \/ \E sz \in sizes : DoResize(1, sz)
    \/ \E ul \in Positions, sz \in sizes : DoSizeMove(1, ul, PtAdd(ul, sz))
    \/ \E pt \in Positions : DoMoveTo(1, pt)
    \/ \E pt \in Offsets : DoOffsetMove(1, pt)
    \/ \E sz \in sizes : DoSetMinSize(1, sz)
    \/ \E sz \in sizes : DoSetMaxSize(1, sz)

InitGeom == InitGeomOf(SizeArgs)

NextGeom == GeomStep(SizeArgs)

SpecGeom == InitGeom /\ [][NextGeom]_vars

InitGeomSigned == InitGeomOf(SignedSizeArgs)

NextGeomSigned == GeomStep(SignedSizeArgs)

SpecGeomSigned == InitGeomSigned /\ [][NextGeomSigned]_vars

----------------------------------------------------------------------------
\* Claims about geometry.

\* The size of Wnd 1 after SizeMove(ul, ul + sz).
SizeAfterSizeMove(ul, sz) == Size(SizeMove(World, 1, ul, PtAdd(ul, sz)), 1)

\* The upper left corners of the requests the claims speak of: the ones the
\* callers pass, and the corner the Wnd has, which Resize passes.
RequestCorners == Positions \cup {m_upperleft[1]}

C8_LowerRightNotBelowUpperLeft ==
    \A n \in Nodes :
        life[n] = "live" =>
            /\ m_lowerright[n][1] >= m_upperleft[n][1]
            /\ m_lowerright[n][2] >= m_upperleft[n][2]

----------------------------------------------------------------------------
\* The registry of one flag type: SpecFlags.

\* Bound on the bits of the flags that are registered.
MaxBit == 2

\* Bound on the number of flags that are registered.
MaxRegistered == 3

\* The values a FlagType can be constructed with: its constructor throws for
\* a value with more than one bit.
FlagValues == {v \in 0..Pow2(MaxBit) : OneBits(v) <= 1}

\* The values of the Flags that are complemented: every set of the bits.
FlagSets == 0..(Pow2(MaxBit + 1) - 1)

Names == {"A", "B"}

\* operator~ reads no name: in SpecComplement every flag is registered under
\* the same one.
ComplementNames == {"A"}

InitFlags ==
    /\ InitWnds("ctor")
    /\ last = NoOp

DoInsert(flag, name) ==
    /\ instance.m_count < MaxRegistered
    /\ \E r \in {insert(instance, flag, name)} :
           /\ instance' = r.spec
           /\ last' = [op |-> "insert", threw |-> r.threw]
    /\ UNCHANGED <<wndVars, s_singleton>>

DoToString(flag) ==
    /\ last' = [op |-> "ToString", arg |-> flag, out |-> ToString(instance, flag)]
    /\ UNCHANGED <<wndVars, instance, s_singleton>>

DoFromString(str) ==
    /\ last' = [op |-> "FromString", arg |-> str, out |-> FromString(instance, str)]
    /\ UNCHANGED <<wndVars, instance, s_singleton>>

DoComplement(flags) ==
    /\ last' = [op |-> "operator~", arg |-> flags, out |-> OpComplement(instance, flags)]
    /\ UNCHANGED <<wndVars, instance, s_singleton>>

NextFlags ==
    \/ \E flag \in FlagValues, name \in Names : DoInsert(flag, name)
    \/ \E flag \in FlagValues : DoToString(flag)
    \/ \E str \in Names : DoFromString(str)

SpecFlags == InitFlags /\ [][NextFlags]_vars

NextComplement ==
    \/ \E flag \in FlagValues, name \in ComplementNames : DoInsert(flag, name)
    \/ \E flags \in FlagSets : DoComplement(flags)

SpecComplement == InitFlags /\ [][NextComplement]_vars

\* The bits of a Flags value, and the bits of the registered flags.
BitsOf(flags) == {i \in 0..(digits - 1) : BitAt(flags, i) = 1}

RegisteredBits == UNION {BitsOf(instance.m_flags[idx]) : idx \in 1..instance.m_count}

\* C9: the complement of a Flags value holds exactly the registered flags that
\* are not in the value, whatever bits the value has: no bit that is not a
\* registered flag is in it.
C9_ComplementIsRegistryMinusOperand ==
    LET registered == RegisteredBits
    IN  \A flags \in FlagSets :
            BitsOf(OpComplement(instance, flags)) = registered \ BitsOf(flags)

\* C9's case: with the flags 1, 2 and 4 registered, ~{1} has been computed and
\* is {2, 4}; ~{} is {1, 2, 4} and ~{1, 2, 4} is {}.
C9_Witness ==
    /\ instance.m_flags = <<1, 2, 4>>
    /\ last = [op |-> "operator~", arg |-> 1, out |-> 6]
    /\ OpComplement(instance, 0) = 7
    /\ OpComplement(instance, 7) = 0

\* C10 as stated: in every registry that successful inserts have made,
\* FromString(ToString(f)) is f for every registered flag f and
\* ToString(FromString(n)) is n for every registered name n.
C10_StringRoundTrip ==
    /\ \A idx \in 1..instance.m_count :
           LET f == instance.m_flags[idx]
           IN  /\ ToString(instance, f).threw = "none"
               /\ FromString(instance, ToString(instance, f).value) = Returned(f)
    /\ \A idx \in 1..instance.m_count :
           LET n == instance.m_strings[idx]
           IN  /\ FromString(instance, n).threw = "none"
               /\ ToString(instance, FromString(instance, n).value) = Returned(n)

----------------------------------------------------------------------------
\* A registry that fills up: SpecCapacity.

\* Bound on the number of free places of the registry at the start.
MaxFree == 3

\* The names the flags of the start are registered under, one per bit.
BitNames ==
    <<"b0", "b1", "b2", "b3", "b4", "b5", "b6", "b7",
      "b8", "b9", "b10", "b11", "b12", "b13", "b14", "b15">>

\* The registry after insert(FlagType(1 << i), BitNames[i]) for the bits from
\* i up to the highest.
RECURSIVE InsertBitsFrom(_, _)
InsertBitsFrom(spec, i) ==
    IF i >= digits THEN spec
    ELSE InsertBitsFrom(insert(spec, Pow2(i), BitNames[i + 1]).spec, i + 1)

\* The flags that are inserted into it: 0, the bits that are free, and the
\* highest bit, which is registered.
CapacityFlagValues ==
    {0} \cup {Pow2(i) : i \in 0..(MaxFree - 1)} \cup {Pow2(digits - 1)}

\* A block of insert calls like those of RegisterWndFlags, on the empty
\* registry: the bits from MaxFree up, each under its name.
DoRegisterBits ==
    /\ instance.m_count = 0
    /\ instance' = InsertBitsFrom(instance, MaxFree)
    /\ last' = [op |-> "RegisterBits"]
    /\ UNCHANGED <<wndVars, s_singleton>>

\* One insert call, whatever the registry holds.
DoInsertAny(flag, name) ==
    /\ \E r \in {insert(instance, flag, name)} :
           /\ instance' = r.spec
           /\ last' = [op |-> "insert", flag |-> flag, threw |-> r.threw]
    /\ UNCHANGED <<wndVars, s_singleton>>

NextCapacity ==
    \/ DoRegisterBits
    \/ \E flag \in CapacityFlagValues, name \in Names : DoInsertAny(flag, name)

SpecCapacity == InitFlags /\ [][NextCapacity]_vars

\* C11: insert of a flag that is registered, and insert into a registry of 16
\* flags, throws and leaves m_count, the flags and the names as they are; the
\* registry never holds more than 16 flags and holds no flag twice.
C11_InsertRejectsDuplicateAndFull ==
    /\ instance.m_count <= digits
    /\ Len(instance.m_flags) = instance.m_count
    /\ \A i, j \in 1..instance.m_count :
           instance.m_flags[i] = instance.m_flags[j] => i = j
    /\ \A flag \in CapacityFlagValues, name \in Names :
           (contains(instance, flag) \/ instance.m_count >= digits) =>
               LET r == insert(instance, flag, name)
               IN  r.threw # "none" /\ r.spec = instance

\* C11's case: the registry holds 16 flags, and the insert of a flag that it
\* does not hold has thrown.
C11_Witness ==
    /\ instance.m_count = digits
    /\ last.op = "insert"
    /\ last.threw = "runtime_error"
    /\ ~contains(instance, last.flag)
    /\ insert(instance, Pow2(digits - 1), "A").threw # "none"

----------------------------------------------------------------------------
\* C12 as stated: after any sequence of insert calls no two registered flags
\* have the same name, insert having failed for a name that is registered.
C12_NoTwoFlagsShareName ==
    \A i, j \in 1..instance.m_count :
        instance.m_strings[i] = instance.m_strings[j] => i = j

----------------------------------------------------------------------------
\* Flags made from one flag: SpecFlagsCtor.

\* Flags::Flags(FlagType): m_flags, or what the constructor threw.  The test
\* against the registry is compiled under __cpp_lib_is_constant_evaluated and
\* runs when the evaluation is not a constant evaluation: validated says
\* whether both hold for the call.
FlagsCtor(spec, flag, validated) ==
    IF validated /\ ~contains(spec, flag) THEN Threw("UnknownFlag")
    ELSE Returned(flag)

DoFlagsCtor(flag, validated) ==
    /\ last' = [op |-> "Flags", arg |-> flag, validated |-> validated,
                out |-> FlagsCtor(instance, flag, validated)]
    /\ UNCHANGED <<wndVars, instance, s_singleton>>

NextFlagsCtor ==
    \/ \E flag \in FlagValues, name \in Names : DoInsert(flag, name)
    \/ \E flag \in FlagValues, validated \in BOOLEAN : DoFlagsCtor(flag, validated)

SpecFlagsCtor == InitFlags /\ [][NextFlagsCtor]_vars

\* C13 as stated: the construction of a Flags from a flag that is not
\* registered throws UnknownFlag, and from a registered flag gives the Flags
\* that holds the bit of that flag and no other.
C13_FlagsCtorValidates ==
    last.op = "Flags" =>
        IF contains(instance, last.arg)
        THEN last.out = Returned(last.arg)
        ELSE last.out = Threw("UnknownFlag")

----------------------------------------------------------------------------
\* Installed layouts: SpecLayout.

\* Wnd::RemoveLayout.  Layout::DetachAndResetChildren detaches the children of
\* the layout; each is then attached to n.  The layout stays in n's child list.
RECURSIVE AttachEach(_, _, _)
AttachEach(w, n, cs) ==
    IF cs = <<>> THEN w
    ELSE AttachEach(AttachChild(w, n, Head(cs)), n, Tail(cs))

RemoveLayout(w, n) ==
    LET layout == GetLayout(w, n)
        w1 == [w EXCEPT !.m_layout[n] = Null]
    IN  IF layout = Null THEN w1
        ELSE AttachEach(DetachChildren(w1, layout), n, w1.m_children[layout])

\* The test of SetLayout without its half for the lower right corner.
OutsideClientUpperLeftOnly(w, n, cs) ==
    SelectSeq(cs, LAMBDA c : w.m_upperleft[c][1] < 0 \/ w.m_upperleft[c][2] < 0)

\* The children of cs that SetLayout attaches again: those whose rectangle is
\* not inside the client rectangle of n.
OutsideClient(w, n, cs) ==
    SelectSeq(cs, LAMBDA c :
        \/ w.m_upperleft[c][1] < 0 \/ w.m_upperleft[c][2] < 0
        \/ ClientSize(w, n)[1] < w.m_lowerright[c][1]
        \/ ClientSize(w, n)[2] < w.m_lowerright[c][2])

\* SetLayout that removes the installed layout before it throws.
SetLayoutRemovingFirst(w, n, layout) ==
    IF layout = GetLayout(w, n) \/ layout = ContainingLayout(w, n)
    THEN [world |-> RemoveLayout(w, n), threw |-> "BadLayout"]
    ELSE LET w1 == RemoveLayout(w, n)
             w2 == DetachChildren(w1, n)
             w3 == AttachEach(w2, n, OutsideClient(w2, n, w1.m_children[n]))
             w4 == [AttachChild(w3, n, layout) EXCEPT !.m_layout[n] = layout]
         IN  [world |-> SizeMove(w4, layout, <<0, 0>>, ClientSize(w4, n)),
              threw |-> "none"]

\* SetLayout that installs the layout without attaching it.
SetLayoutNotAttaching(w, n, layout) ==
    IF layout = GetLayout(w, n) \/ layout = ContainingLayout(w, n)
    THEN [world |-> w, threw |-> "BadLayout"]
    ELSE LET w1 == RemoveLayout(w, n)
             w2 == DetachChildren(w1, n)
             w3 == AttachEach(w2, n, OutsideClient(w2, n, w1.m_children[n]))
             w5 == [w3 EXCEPT !.m_layout[n] = layout]
         IN  [world |-> SizeMove(w5, layout, <<0, 0>>, ClientSize(w5, n)),
              threw |-> "none"]

\* Wnd::SetLayout(const std::shared_ptr<Layout>&) for a layout that is not
\* null: the world after the call, and whether the call threw BadLayout.
SetLayout(w, n, layout) ==
    IF layout = GetLayout(w, n) \/ layout = ContainingLayout(w, n)
    THEN [world |-> w, threw |-> "BadLayout"]
    ELSE LET w1 == RemoveLayout(w, n)
             children == w1.m_children[n]
             w2 == DetachChildren(w1, n)
             w3 == AttachEach(w2, n, OutsideClient(w2, n, children))
             w4 == AttachChild(w3, n, layout)
             w5 == [w4 EXCEPT !.m_layout[n] = layout]
         IN  [world |-> SizeMove(w5, layout, <<0, 0>>, ClientSize(w5, n)),
              threw |-> "none"]

\* Wnd::DetachLayout
DetachLayout(w, n) == DetachChild(w, n, GetLayout(w, n))

\* The place Wnd 1 is moved to: outside the client rectangle of every Wnd.
MovedTo == <<1, 0>>

\* SetLayout calls ClientSize() when the children have been detached and
\* ClientWidth() when the layout has been attached: the call returns when it
\* throws or when the chain of parents of n ends at both places.
SetLayoutReturns(w, n, layout) ==
    \/ layout = GetLayout(w, n)
    \/ layout = ContainingLayout(w, n)
    \/ /\ Rooted(DetachChildren(RemoveLayout(w, n), n), n)
       /\ Rooted(SetLayout(w, n, layout).world, n)

DoSetLayout(p, l) ==
    /\ life[p] = "live"
    /\ life[l] = "live"
    /\ IsLayout(l)
    /\ SetLayoutReturns(World, p, l)
    /\ Becomes(SetLayout(World, p, l).world)
    /\ last' = [op |-> "SetLayout", p |-> p, c |-> l,
                threw |-> SetLayout(World, p, l).threw]

DoDetachLayout(p) ==
    /\ life[p] = "live"
    /\ Becomes(DetachLayout(World, p))
    /\ last' = [op |-> "DetachLayout", p |-> p, c |-> GetLayout(World, p)]

DoRemoveLayout(p) ==
    /\ life[p] = "live"
    /\ Becomes(RemoveLayout(World, p))
    /\ last' = [op |-> "RemoveLayout", p |-> p, c |-> GetLayout(World, p)]

NextLayout ==
    \/ \E n \in Nodes : Create(n)
    \/ \E p, c \in Nodes : DoAttachChild(p, c)
    \/ \E p, c \in Nodes : DoDetachChild(p, c)
    \/ \E p \in Nodes : DoDetachChildren(p)
    \/ \E p, l \in Nodes : DoSetLayout(p, l)
    \/ \E p \in Nodes : DoDetachLayout(p)
    \/ \E p \in Nodes : DoRemoveLayout(p)
    \/ DoMoveTo(1, MovedTo)

SpecLayout == Init /\ [][NextLayout]_vars

\* C14: when L is the installed layout of P, a step that detaches L from P,
\* that is P.DetachChild(L), P.DetachLayout(), P.DetachChildren() or
\* Q.AttachChild(L) for a live Q other than P, leaves P.GetLayout() empty.
C14_DetachClearsLayout ==
    [][\A p \in Nodes :
           LET l == GetLayout(World, p)
           IN  (/\ l # Null
                /\ life[p] = "live"
                /\ \/ last'.op \in {"DetachChild", "DetachLayout"} /\ last'.p = p /\ last'.c = l
                   \/ last'.op = "DetachChildren" /\ last'.p = p
                   \/ last'.op = "AttachChild" /\ last'.p # p /\ last'.c = l
                          /\ life[last'.p] = "live")
               => m_layout'[p] = Null]_vars

\* C14's case: DetachLayout has taken the layout 3 out of Wnd 2, which keeps
\* its other child.
C14_Witness ==
    /\ last = [op |-> "DetachLayout", p |-> 2, c |-> 3]
    /\ m_layout[2] = Null
    /\ m_parent[3] = Null
    /\ m_children[2] = <<1>>

\* C15: P.DetachChild(C) for a child C of P leaves C without parent and
\* without containing layout and takes C out of P's child list, the other
\* children staying in their order; P.DetachChildren() does so for every
\* child and leaves the list empty; P.DetachChild(C) for a C that is no child
\* of P changes no field of any Wnd.
C15_DetachChildFrame ==
    [][
        /\ last'.op = "DetachChild" =>
              LET p == last'.p
                  c == last'.c
              IN  IF c \in Range(m_children[p])
                  THEN /\ m_parent'[c] = Null
                       /\ m_containing_layout'[c] = Null
                       /\ m_children'[p] = SelectSeq(m_children[p], LAMBDA x : x # c)
                       /\ \A q \in Nodes \ {p} : m_children'[q] = m_children[q]
                       /\ \A n \in Nodes \ {c} : m_parent'[n] = m_parent[n]
                  ELSE UNCHANGED wndVars
        /\ last'.op = "DetachChildren" =>
              LET from == last'.p
              IN  /\ m_children'[from] = <<>>
                  /\ \A x \in Range(m_children[from]) :
                         m_parent'[x] = Null /\ m_containing_layout'[x] = Null
                  /\ \A q \in Nodes \ {from} : m_children'[q] = m_children[q]
                  /\ \A n \in Nodes \ Range(m_children[from]) : m_parent'[n] = m_parent[n]
      ]_vars

\* C15's case: the layout 3 held the children 1 and 2, and DetachChild has
\* taken 1 out.
C15_Witness ==
    /\ last = [op |-> "DetachChild", p |-> 3, c |-> 1]
    /\ m_children[3] = <<2>>
    /\ m_parent[1] = Null
    /\ m_containing_layout[1] = Null
    /\ m_containing_layout[2] = 3

\* C16: P.AttachChild(C) on a P that no live shared handle owns, because its
\* constructor is running or its destruction has begun, changes nothing: the
\* child list of P, the parent link of C and the child list of the parent
\* of C are as before.
C16_AttachWithoutHandleIsNoOp ==
    \A p, c \in Nodes :
        (life[p] # "live" /\ life[c] = "live") => AttachChild(World, p, c) = World

\* C16's case: AttachChild was called on a Wnd under construction with a child
\* of another Wnd, which is still that Wnd's child; a further Wnd is destroyed.
C16_Witness ==
    /\ last.op = "AttachChild"
    /\ life[last.p] = "ctor"
    /\ last.old # Null
    /\ m_parent[last.c] = last.old
    /\ last.c \in Range(m_children[last.old])
    /\ m_children[last.p] = <<>>
    /\ \E d \in Nodes : life[d] = "dead"

\* C17: after any Install/RemoveEventFilter calls on live Wnds (and the
\* destruction of Wnds), a Wnd is at most once in the filter list of a live
\* Wnd, and for live F and W, F is in the filter list of W exactly when W is
\* in the filtering set of F; W.RemoveEventFilter(F) for an F that is not in
\* the filter list of W changes no field of any Wnd.
C17_FilterListsConsistent ==
    [][
        /\ \A t \in Nodes : life'[t] = "live" =>
               /\ \A f \in Nodes : Count(m_filters'[t], f) <= 1
               /\ \A f \in Nodes : life'[f] = "live" =>
                      (f \in Range(m_filters'[t]) <=> t \in m_filtering'[f])
        /\ (last'.op = "RemoveEventFilter" /\ last'.c \notin Range(m_filters[last'.p]))
               => UNCHANGED wndVars
      ]_vars

\* C17's case: Wnd 1 has the filters 2 and 3, and 2.RemoveEventFilter(1), the
\* removal of a filter that is not installed, came last.
C17_Witness ==
    /\ last = [op |-> "RemoveEventFilter", p |-> 2, c |-> 1]
    /\ m_filters[1] = <<2, 3>>
    /\ m_filters[2] = <<>>
    /\ m_filtering[3] = {1}
    /\ m_filtering[2] = {1}

----------------------------------------------------------------------------
\* The flags of a Wnd: SpecWndFlags.

\* Wnd::OnTop and Wnd::Modal
OnTop(w, n) == Parent(w, n) = Null /\ "ONTOP" \in w.m_flags[n]

Modal(w, n) == Parent(w, n) = Null /\ "MODAL" \in w.m_flags[n]

\* The flags Wnds are constructed with.  UNREGISTERED is a WndFlag that no
\* insert has registered: a Flags<WndFlag> holds it when its construction
\* was not validated.
WndFlagArgs ==
    {{}, {"ONTOP"}, {"MODAL"}, {"MODAL", "ONTOP", "INTERACTIVE"},
     {"MODAL", "ONTOP", "UNREGISTERED"}}

\* Wnd::Create<Wnd>(x, y, w, h, flags): the constructor stores flags and calls
\* ValidateFlags, and a shared handle owns the Wnd.  The Wnds are constructed
\* in the order of their numbers.
DoConstruct(n, flags) ==
    /\ life[n] = "ctor"
    /\ \A m \in 1..(n - 1) : life[m] = "live"
    /\ Becomes([World EXCEPT !.life[n] = "live",
                             !.m_flags[n] = ValidateFlags(flags)])
    /\ last' = [op |-> "Wnd", p |-> n, c |-> Null, flags |-> flags]

NextWndFlags ==
    \/ \E n \in Nodes, flags \in WndFlagArgs : DoConstruct(n, flags)
    \/ \E p, c \in Nodes : DoAttachChild(p, c)
    \/ \E p, c \in Nodes : DoDetachChild(p, c)

SpecWndFlags == Init /\ [][NextWndFlags]_vars

\* C18 as stated: no Wnd holds both MODAL and ONTOP; a Wnd constructed with
\* both keeps MODAL, loses ONTOP and keeps every other flag it was given;
\* Modal() and OnTop() are false for a Wnd with a live parent.
C18_ModalExcludesOnTop ==
    /\ \A n \in Nodes : life[n] = "live" =>
           /\ ~({"MODAL", "ONTOP"} \subseteq m_flags[n])
           /\ Parent(World, n) # Null => (~Modal(World, n) /\ ~OnTop(World, n))
    /\ last.op = "Wnd" =>
           m_flags[last.p] = IF {"MODAL", "ONTOP"} \subseteq last.flags
                             THEN last.flags \ {"ONTOP"}
                             ELSE last.flags

----------------------------------------------------------------------------
\* Modal runs: SpecRun.

\* What the ModalInit hook of a Wnd does: Wnd::ModalInit does nothing, an
\* override may call EndRun().
ModalInitHooks == {"nothing", "EndRun"}

\* Wnd::EndRun
EndRun(w, n) == [w EXCEPT !.m_done[n] = TRUE]

\* Run without the test of Parent().
RunWithParent(w, n, hook) ==
    IF "MODAL" \in w.m_flags[n]
    THEN LET w1 == [w EXCEPT !.gui.modals = Append(@, n),
                             !.gui.calls[n] = <<"RegisterModal">>]
             w2 == [(IF hook = "EndRun" THEN EndRun(w1, n) ELSE w1)
                        EXCEPT !.gui.calls[n] = Append(@, "ModalInit")]
             w3 == [w2 EXCEPT !.m_done[n] = FALSE]
         IN  [world |-> [w3 EXCEPT !.gui.calls[n] = Append(@, "RunModal")],
              ret |-> "in RunModal"]
    ELSE [world |-> w, ret |-> "false"]

\* Wnd::Run on a Wnd that a shared handle owns, up to its call of
\* GUI::RunModal: the world then, and "false" when Run has returned false.
\* GUI::RegisterModal puts the Wnd on the GUI's list of modal Wnds.
Run(w, n, hook) ==
    IF Parent(w, n) = Null /\ "MODAL" \in w.m_flags[n]
    THEN LET w1 == [w EXCEPT !.gui.modals = Append(@, n),
                             !.gui.calls[n] = <<"RegisterModal">>]
             w2 == [(IF hook = "EndRun" THEN EndRun(w1, n) ELSE w1)
                        EXCEPT !.gui.calls[n] = Append(@, "ModalInit")]
             w3 == [w2 EXCEPT !.m_done[n] = FALSE]
         IN  [world |-> [w3 EXCEPT !.gui.calls[n] = Append(@, "RunModal")],
              ret |-> "in RunModal"]
    ELSE [world |-> w, ret |-> "false"]

\* Wnd::Run from the return of GUI::RunModal on: GUI::Remove takes the Wnd
\* from the list of modal Wnds, and Run returns true.
RunAfterRunModal(w, n) ==
    [w EXCEPT !.gui.modals = Without(@, n),
              !.gui.calls[n] = Append(@, "Remove")]

\* The flags the Wnds of SpecRun are constructed with.
ModalArgs == {{}, {"MODAL"}}

DoRun(n, hook) ==
    /\ life[n] = "live"
    /\ n \notin Range(gui.modals)
    /\ Becomes(Run(World, n, hook).world)
    /\ last' = [op |-> "Run", p |-> n, ret |-> Run(World, n, hook).ret]

DoEndRun(n) ==
    /\ life[n] = "live"
    /\ Becomes(EndRun(World, n))
    /\ last' = [op |-> "EndRun", p |-> n, ret |-> "void"]

\* GUI::RunModal(wnd, done) returns to the Run() of the modal Wnd registered
\* last, once done is true.
DoRunModalReturns(n) ==
    /\ gui.modals # <<>>
    /\ n = gui.modals[Len(gui.modals)]
    /\ m_done[n]
    /\ Becomes(RunAfterRunModal(World, n))
    /\ last' = [op |-> "Run", p |-> n, ret |-> "true"]

\* The Wnds that are constructed with MODAL or without, and that Run() and
\* EndRun() are called on; the other Wnds are their parents and children.
RunCast == {1, 2}

NextRun ==
    \/ \E n \in Nodes : \E flags \in (IF n \in RunCast THEN ModalArgs ELSE {{}}) :
           DoConstruct(n, flags)
    \/ \E p, c \in Nodes : EvAttachChild(p, c)
    \/ \E n \in RunCast, hook \in ModalInitHooks : DoRun(n, hook)
    \/ \E n \in RunCast : DoEndRun(n)
    \/ \E n \in RunCast : DoRunModalReturns(n)

SpecRun == Init /\ [][NextRun]_vars

\* C19: Run() on a Wnd without parent and with MODAL calls RegisterModal,
\* ModalInit and RunModal, in this order, and when RunModal has returned calls
\* Remove and returns true; Run() on a Wnd with a parent or without MODAL
\* returns false and changes nothing: no call of the GUI or of ModalInit is
\* made and m_done is as before.
C19_RunOrder ==
    [][last'.op = "Run" =>
          LET n == last'.p
          IN  CASE last'.ret = "true" ->
                       /\ gui'.calls[n] = <<"RegisterModal", "ModalInit", "RunModal", "Remove">>
                       /\ n \notin Range(gui'.modals)
                [] last'.ret = "in RunModal" ->
                       /\ Parent(World, n) = Null /\ "MODAL" \in m_flags[n]
                       /\ gui'.calls[n] = <<"RegisterModal", "ModalInit", "RunModal">>
                       /\ gui'.modals = Append(gui.modals, n)
                [] OTHER ->
                       /\ Parent(World, n) # Null \/ "MODAL" \notin m_flags[n]
                       /\ UNCHANGED wndVars]_vars

\* C19's case: Run() of the modal Wnd 1 has returned true, and Run() of the
\* modal Wnd 2, which has the parent 1, has returned false.
C19_Witness ==
    /\ last = [op |-> "Run", p |-> 2, ret |-> "false"]
    /\ "MODAL" \in m_flags[2]
    /\ m_parent[2] = 1
    /\ gui.calls[1] = <<"RegisterModal", "ModalInit", "RunModal", "Remove">>
    /\ gui.calls[2] = <<>>

----------------------------------------------------------------------------
\* Wnd::GridLayout: SpecGrid.

\* Rect::Contains(pt): the rectangle from ul to lr holds the points from ul up
\* to, not including, lr.
Contains(ul, lr, pt) ==
    /\ ul[1] <= pt[1] /\ ul[2] <= pt[2]
    /\ pt[1] < lr[1] /\ pt[2] < lr[2]

\* The test without its half for the lower right corner.
InClientUpperLeftOnly(w, n, c) ==
    ~ \/ w.m_upperleft[c][1] < 0 \/ w.m_upperleft[c][2] < 0

\* The test of GridLayout's outer loop: the child c of n goes into the grid.
\* RelativeUpperLeft and RelativeLowerRight are m_upperleft and m_lowerright.
InClient(w, n, c) ==
    ~ \/ w.m_upperleft[c][1] < 0 \/ w.m_upperleft[c][2] < 0
      \/ ClientSize(w, n)[1] < w.m_lowerright[c][1]
      \/ ClientSize(w, n)[2] < w.m_lowerright[c][2]

\* The test of GridLayout's inner loop, for the child wnd and a child other
\* that is later in the child list.
CornerInside(w, wnd, other) ==
    \/ Contains(w.m_upperleft[other], w.m_lowerright[other], w.m_upperleft[wnd])
    \/ Contains(w.m_upperleft[other], w.m_lowerright[other],
                PtSub(w.m_lowerright[wnd], <<1, 1>>))

\* The two loops of GridLayout throw BadLayout: some child that goes into the
\* grid has one of the two corners inside a later child.
GridLayoutThrows(w, n) ==
    LET cs == w.m_children[n]
    IN  \E i \in 1..Len(cs) : \E j \in (i + 1)..Len(cs) :
            InClient(w, n, cs[i]) /\ CornerInside(w, cs[i], cs[j])

\* The grid of GridLayout: the GridLayoutWnd of each child in it, and one
\* index of the container as the sequence of the children in its order.  f is
\* the corner ("ul" or "lr") and a the axis (1 for x, 2 for y) of the index
\* LayoutLeft ("ul", 1), LayoutTop ("ul", 2), LayoutRight ("lr", 1) and
\* LayoutBottom ("lr", 2).

\* count(v, IsLeft()) and the like: some child of the grid has the edge v.
HasEdge(g, f, a, v) == \E e \in DOMAIN g : g[e][f][a] = v

\* The edge the inner loop of an alignment loop gives to the edge k: the loop
\* walks away from k, left and up as far as 0, right and down to below lim,
\* stops without a change at an opposite edge beside it, and takes the first
\* same edge it meets.
SnappedEdge(g, f, a, k, lim) ==
    LET toward == IF f = "ul" THEN 0 - 1 ELSE 1
        walked == IF f = "ul" THEN 0..(k - 1) ELSE (k + 1)..(lim - 1)
        other == IF f = "ul" THEN "lr" ELSE "ul"
        stops == {x \in walked : \/ HasEdge(g, other, a, x - toward)
                                 \/ HasEdge(g, f, a, x)}
        first == IF f = "ul"
                 THEN CHOOSE x \in stops : \A y \in stops : y <= x
                 ELSE CHOOSE x \in stops : \A y \in stops : x <= y
    IN  IF stops = {} THEN k
        ELSE IF HasEdge(g, other, a, first - toward) THEN k
        ELSE first

\* An index that links an element ahead of the equal ones.
LinkedAhead(g, order, e, f, a) ==
    LET rest == Without(order, e)
        ahead(r) == IF f = "ul" THEN g[r][f][a] < g[e][f][a]
                    ELSE g[e][f][a] < g[r][f][a]
    IN  SelectSeq(rest, ahead) \o <<e>> \o SelectSeq(rest, LAMBDA r : ~ahead(r))

\* The place of e in an ordered_non_unique index after insert or replace:
\* behind the elements that IsLeft, IsTop, IsRight or IsBottom does not put
\* behind e.
Linked(g, order, e, f, a) ==
    LET rest == Without(order, e)
        behind(r) == IF f = "ul" THEN g[e][f][a] < g[r][f][a]
                     ELSE g[r][f][a] < g[e][f][a]
        ahead == SelectSeq(rest, LAMBDA r : ~behind(r))
    IN  ahead \o <<e>> \o SelectSeq(rest, behind)

\* The index of the grid after the inserts of the children wnds, in order.
RECURSIVE IndexOf(_, _, _, _, _)
IndexOf(g, order, wnds, f, a) ==
    IF wnds = <<>> THEN order
    ELSE IndexOf(g, Linked(g, order, Head(wnds), f, a), Tail(wnds), f, a)

\* An alignment loop that, after a replace(), passes over the element behind
\* the new place of the replaced one.
RECURSIVE AlignEdgesSkipping(_, _, _, _, _, _)
AlignEdgesSkipping(g, order, i, f, a, lim) ==
    IF i > Len(order) THEN g
    ELSE LET e == order[i]
             x == SnappedEdge(g, f, a, g[e][f][a], lim)
             g1 == [g EXCEPT ![e][f][a] = x]
             order1 == Linked(g1, order, e, f, a)
             j == CHOOSE m \in 1..Len(order1) : order1[m] = e
         IN  IF x = g[e][f][a] THEN AlignEdgesSkipping(g, order, i + 1, f, a, lim)
             ELSE AlignEdgesSkipping(g1, order1, j + 2, f, a, lim)

\* One alignment loop of GridLayout, from the i-th element of the index on:
\* the grid after it.  replace() moves the element within the index, and the
\* iterator goes on from the new place.
RECURSIVE AlignEdges(_, _, _, _, _, _)
AlignEdges(g, order, i, f, a, lim) ==
    IF i > Len(order) THEN g
    ELSE LET e == order[i]
             k == g[e][f][a]
             x == SnappedEdge(g, f, a, k, lim)
             g1 == [g EXCEPT ![e][f][a] = x]
             order1 == Linked(g1, order, e, f, a)
             j == CHOOSE m \in 1..Len(order1) : order1[m] = e
         IN  IF x = k THEN AlignEdges(g, order, i + 1, f, a, lim)
             ELSE AlignEdges(g1, order1, j + 1, f, a, lim)

\* The number of the elements of the std::set edges before lower_bound(v).
LowerBound(edges, v) == Cardinality({u \in edges : u < v})

\* GridLayout, from the aligned pixel grid g to the cells: the rows and
\* columns of the Layout, and the arguments of Layout::Add for each child.
CellsOf(g) ==
    LET unique_lefts == {g[e].ul[1] : e \in DOMAIN g}
        unique_tops == {g[e].ul[2] : e \in DOMAIN g}
        cell(ul, lr) ==
            [row |-> LowerBound(unique_tops, ul[2]),
             column |-> LowerBound(unique_lefts, ul[1]),
             num_rows |-> LowerBound(unique_tops, lr[2])
                            - LowerBound(unique_tops, ul[2]),
             num_columns |-> LowerBound(unique_lefts, lr[1])
                               - LowerBound(unique_lefts, ul[1])]
    IN  [rows |-> Cardinality(unique_tops),
         columns |-> Cardinality(unique_lefts),
         cells |-> [e \in DOMAIN g |-> cell(g[e].ul, g[e].lr)]]

\* The four alignment loops of GridLayout on the grid g0 of the children
\* wnds: left sides, right sides, tops, bottoms.  The indices are in the
\* order the inserts have given them.
AlignedGrid(g0, wnds, client_sz) ==
    LET g1 == AlignEdges(g0, IndexOf(g0, <<>>, wnds, "ul", 1), 1, "ul", 1, 0)
        g2 == AlignEdges(g1, IndexOf(g0, <<>>, wnds, "lr", 1), 1,
                         "lr", 1, client_sz[1])
        g3 == AlignEdges(g2, IndexOf(g0, <<>>, wnds, "ul", 2), 1, "ul", 2, 0)
    IN  AlignEdges(g3, IndexOf(g0, <<>>, wnds, "lr", 2), 1,
                   "lr", 2, client_sz[2])

\* Wnd::Create<Layout>(X0, Y0, ClientSize().x, ClientSize().y, ...) by n.
CreateLayout(w, n) ==
    [w EXCEPT !.life[Manufactured] = "live",
              !.m_upperleft[Manufactured] = <<0, 0>>,
              !.m_lowerright[Manufactured] = ClientSize(w, n)]

\* What a layout function hands back when it has made no Layout.
NoCells == [rows |-> 0, columns |-> 0, cells |-> <<>>]

\* GridLayout that makes and installs the Layout before it validates the
\* children.
GridLayoutOfValidatingLate(w, n) ==
    LET wnds == SelectSeq(w.m_children[n], LAMBDA c : InClient(w, n, c))
        sorted == SelectSeq([i \in 1..(NumNodes + 2) |-> i],
                            LAMBDA c : c \in Range(wnds))
        w3 == AttachChild([CreateLayout(w, n) EXCEPT !.m_layout[n] = Manufactured],
                          n, Manufactured)
    IN  IF GridLayoutThrows(w, n)
        THEN [world |-> w3, threw |-> "BadLayout", made |-> TRUE,
              wnds |-> <<>>, grid |-> NoCells]
        ELSE IF wnds = <<>>
        THEN [world |-> w, threw |-> "none", made |-> FALSE,
              wnds |-> <<>>, grid |-> NoCells]
        ELSE [world |-> AttachEach(w3, Manufactured, sorted),
              threw |-> "none", made |-> TRUE, wnds |-> sorted, grid |-> NoCells]

\* GridLayout that makes a Layout although no child is inside the client
\* rectangle.
GridLayoutOfMakingAlways(w, n) ==
    IF GridLayoutThrows(w, n)
    THEN [world |-> w, threw |-> "BadLayout", made |-> FALSE,
          wnds |-> <<>>, grid |-> NoCells]
    ELSE LET wnds == SelectSeq(w.m_children[n], LAMBDA c : InClient(w, n, c))
             sorted == SelectSeq([i \in 1..(NumNodes + 2) |-> i],
                                 LAMBDA c : c \in Range(wnds))
             w3 == AttachChild([CreateLayout(w, n) EXCEPT !.m_layout[n] = Manufactured],
                               n, Manufactured)
         IN  [world |-> AttachEach(w3, Manufactured, sorted),
              threw |-> "none", made |-> TRUE, wnds |-> sorted, grid |-> NoCells]

\* Wnd::GridLayout after its call of RemoveLayout: the world after the call,
\* whether the call threw, whether it made a Layout, the children it gave to
\* the Layout in the order of the Add calls, and the Layout's grid.
\* Layout::Add attaches the child to the Layout.  The children are added in
\* the order of their addresses, for which their numbers stand.
GridLayoutOf(w, n) ==
    LET wnds == SelectSeq(w.m_children[n], LAMBDA c : InClient(w, n, c))
        sorted == SelectSeq([i \in 1..(NumNodes + 2) |-> i],
                            LAMBDA c : c \in Range(wnds))
        g0 == [e \in Range(wnds) |->
                  [ul |-> w.m_upperleft[e], lr |-> w.m_lowerright[e]]]
        w3 == AttachChild([CreateLayout(w, n) EXCEPT !.m_layout[n] = Manufactured],
                          n, Manufactured)
    IN  IF GridLayoutThrows(w, n)
        THEN [world |-> w, threw |-> "BadLayout", made |-> FALSE,
              wnds |-> <<>>, grid |-> NoCells]
        ELSE IF wnds = <<>>
        THEN [world |-> w, threw |-> "none", made |-> FALSE,
              wnds |-> <<>>, grid |-> NoCells]
        ELSE [world |-> AttachEach(w3, Manufactured, sorted),
              threw |-> "none", made |-> TRUE, wnds |-> sorted,
              grid |-> CellsOf(AlignedGrid(g0, wnds, ClientSize(w, n)))]

\* Wnd::GridLayout
GridLayout(w, n) == GridLayoutOf(RemoveLayout(w, n), n)

\* Wnd::UpperLeft
RECURSIVE UpperLeft(_, _)
UpperLeft(w, n) ==
    IF Parent(w, n) # Null
    THEN PtAdd(w.m_upperleft[n], UpperLeft(w, Parent(w, n)))
    ELSE w.m_upperleft[n]

\* HorizontalLayout (a = 1) and VerticalLayout (a = 2) after the call of
\* RemoveLayout.  The multiset holds the children in the order of Left() or
\* Top(), an inserted child behind the equal ones; the Layout has one cell for
\* each, in one row or one column.
LineLayoutOf(w, n, a) ==
    LET wnds == SelectSeq(w.m_children[n], LAMBDA c : InClient(w, n, c))
        g == [e \in Range(wnds) |-> [ul |-> UpperLeft(w, e)]]
        sorted == IndexOf(g, <<>>, wnds, "ul", a)
        w3 == AttachChild([CreateLayout(w, n) EXCEPT !.m_layout[n] = Manufactured],
                          n, Manufactured)
    IN  [world |-> AttachEach(w3, Manufactured, sorted),
         threw |-> "none", made |-> TRUE, wnds |-> sorted,
         grid |-> [rows |-> IF a = 1 THEN 1 ELSE Len(wnds),
                   columns |-> IF a = 1 THEN Len(wnds) ELSE 1,
                   cells |-> [e \in Range(wnds) |->
                      LET i == (CHOOSE m \in 1..Len(sorted) : sorted[m] = e) - 1
                      IN  [row |-> IF a = 1 THEN 0 ELSE i,
                           column |-> IF a = 1 THEN i ELSE 0,
                           num_rows |-> 1, num_columns |-> 1]]]]

\* Wnd::HorizontalLayout
HorizontalLayout(w, n) == LineLayoutOf(RemoveLayout(w, n), n, 1)

\* Wnd::VerticalLayout
VerticalLayout(w, n) == LineLayoutOf(RemoveLayout(w, n), n, 2)

\* The Wnds the callers give to Wnd 1 as children.
GridCast == {2, 3, Extra}

\* The rectangles the callers give to the children, as <<ul, lr>>, and the
\* ones they give to Wnd 1.
GridRects ==
    {<< <<0, 0>>, <<3, 1>> >>, << <<1, 0>>, <<2, 1>> >>,
     << <<1, 1>>, <<2, 2>> >>, << <<1, 2>>, <<2, 3>> >>}

ParentRects == {<< <<0, 0>>, <<3, 3>> >>, << <<0, 0>>, <<2, 2>> >>}

DoGridPlace(n, r) ==
    /\ life[n] = "live"
    /\ Becomes(SizeMove(World, n, r[1], r[2]))
    /\ last' = [op |-> "SizeMove", p |-> n]

\* The layout functions call ClientSize() when the installed layout has been
\* removed: the call returns when the chain of parents of n ends there.
LayoutReturns(w, n) == Rooted(RemoveLayout(w, n), n)

\* p.GridLayout().  The model has one Layout to make.
DoGridLayout(p) ==
    LET call == GridLayout(World, p)
    IN  /\ life[p] = "live"
        /\ LayoutReturns(World, p)
        /\ call.made => life[Manufactured] = "none"
        /\ Becomes(call.world)
        /\ last' = [op |-> "GridLayout", p |-> p, threw |-> call.threw,
                    wnds |-> call.wnds, grid |-> call.grid]

DoHorizontalLayout(p) ==
    LET call == HorizontalLayout(World, p)
    IN  /\ life[p] = "live"
        /\ LayoutReturns(World, p)
        /\ life[Manufactured] = "none"
        /\ Becomes(call.world)
        /\ last' = [op |-> "HorizontalLayout", p |-> p, threw |-> call.threw,
                    wnds |-> call.wnds, grid |-> call.grid]

DoVerticalLayout(p) ==
    LET call == VerticalLayout(World, p)
    IN  /\ life[p] = "live"
        /\ LayoutReturns(World, p)
        /\ life[Manufactured] = "none"
        /\ Becomes(call.world)
        /\ last' = [op |-> "VerticalLayout", p |-> p, threw |-> call.threw,
                    wnds |-> call.wnds, grid |-> call.grid]

\* All Wnds have been made by Wnd::Create<Wnd>(X0, Y0, X1, Y1).
InitGrid ==
    /\ InitWnds("live")
    /\ last = NoOp

\* The callers attach and place the Wnds, and then call a layout function.
NextGrid ==
    \/ \E c \in (IF life[Manufactured] = "none" THEN GridCast ELSE {}) :
           DoAttachChild(1, c)
    \/ \E n \in (IF life[Manufactured] = "none" THEN GridCast \cup {1} ELSE {}) :
           \E r \in (IF n = 1 THEN ParentRects ELSE GridRects) : DoGridPlace(n, r)
    \/ DoGridLayout(1)
    \/ DoHorizontalLayout(1)
    \/ DoVerticalLayout(1)

SpecGrid == InitGrid /\ [][NextGrid]_vars

\* The rectangles of a and b have a point in common.
Overlap(w, a, b) ==
    /\ Max(w.m_upperleft[a][1], w.m_upperleft[b][1])
         < Min(w.m_lowerright[a][1], w.m_lowerright[b][1])
    /\ Max(w.m_upperleft[a][2], w.m_upperleft[b][2])
         < Min(w.m_lowerright[a][2], w.m_lowerright[b][2])

\* C20: a step p.GridLayout() on a p without installed layout, two of whose
\* children have rectangles inside p's client rectangle that overlap, throws
\* BadLayout, whatever the order of the two in the child list is and whichever
\* corner of the one is inside the other.
C20_OverlapRaisesBadLayout ==
    [][
        (/\ last'.op = "GridLayout"
         /\ GetLayout(World, last'.p) = Null
         /\ \E a, b \in Range(m_children[last'.p]) :
                /\ a # b
                /\ InClient(World, last'.p, a)
                /\ InClient(World, last'.p, b)
                /\ Overlap(World, a, b))
        => last'.threw = "BadLayout"
    ]_vars

\* The children of p are three Wnds inside p's client rectangle, no two of
\* which overlap, and a and b are two of them with the same left edge.
ThreeWithCommonLeft(w, p, a, b) ==
    LET cs == w.m_children[p]
    IN  /\ GetLayout(w, p) = Null
        /\ Cardinality(Range(cs)) = 3
        /\ Len(cs) = 3
        /\ \A c \in Range(cs) : InClient(w, p, c)
        /\ \A c, d \in Range(cs) : c # d => ~Overlap(w, c, d)
        /\ a \in Range(cs)
        /\ b \in Range(cs)
        /\ a # b
        /\ w.m_upperleft[a][1] = w.m_upperleft[b][1]

\* C21: a step p.GridLayout() on a p with three children inside its client
\* rectangle, no two overlapping, two of them with the same left edge, makes a
\* Layout in which these two children start in the same column.
C21_CommonLeftCommonColumn ==
    [][
        \A a, b \in Objs :
            (last'.op = "GridLayout" /\ ThreeWithCommonLeft(World, last'.p, a, b))
            => /\ last'.threw = "none"
               /\ Len(last'.wnds) = 3
               /\ last'.grid.cells[a].column = last'.grid.cells[b].column
    ]_vars

\* GridLayout has laid out three children of which the second and the third
\* have the left edge 1, and has moved both to the left edge 0 of the first:
\* one column, three rows.
C21_Witness ==
    /\ last.op = "GridLayout"
    /\ last.wnds = <<2, 3, Extra>>
    /\ m_upperleft[2][1] = 0
    /\ m_upperleft[3][1] = 1
    /\ m_upperleft[Extra][1] = 1
    /\ ~Overlap(World, 2, 3)
    /\ ~Overlap(World, 2, Extra)
    /\ ~Overlap(World, 3, Extra)
    /\ last.grid.cells[3].column = 0
    /\ last.grid.cells[Extra].column = 0
    /\ last.grid.columns = 1
    /\ last.grid.rows = 3

\* The children of p inside p's client rectangle, in child-list order.
Eligible(w, p) == SelectSeq(w.m_children[p], LAMBDA c : InClient(w, p, c))

\* The place of c in the child list of p.
ChildIndex(w, p, c) == CHOOSE i \in 1..Len(w.m_children[p]) : w.m_children[p][i] = c

\* The children wnds, given to the Layout in this order, have the cells
\* 0..N-1 along the axis a (columns for 1, rows for 2) and the cell 0 along the
\* other, are the eligible children of p in w, and are in non-decreasing order
\* of the edge on axis a, equal edges in child-list order.
InLine(w, p, a, wnds, grid) ==
    LET N == Len(Eligible(w, p))
    IN  /\ grid.rows = (IF a = 1 THEN 1 ELSE N)
        /\ grid.columns = (IF a = 1 THEN N ELSE 1)
        /\ Len(wnds) = N
        /\ Range(wnds) = Range(Eligible(w, p))
        /\ \A i \in 1..N :
              /\ grid.cells[wnds[i]].column = (IF a = 1 THEN i - 1 ELSE 0)
              /\ grid.cells[wnds[i]].row = (IF a = 1 THEN 0 ELSE i - 1)
        /\ \A i, j \in 1..N :
              i < j =>
                \/ w.m_upperleft[wnds[i]][a] < w.m_upperleft[wnds[j]][a]
                \/ /\ w.m_upperleft[wnds[i]][a] = w.m_upperleft[wnds[j]][a]
                   /\ ChildIndex(w, p, wnds[i]) < ChildIndex(w, p, wnds[j])

\* C22: a step p.HorizontalLayout() makes a Layout of 1 row and N columns for
\* the N eligible children of p and gives them the columns 0..N-1 in
\* non-decreasing order of left edge, equal left edges in child-list order;
\* p.VerticalLayout() does so with N rows, 1 column and the top edges.
C22_LineLayoutOrder ==
    [][
        /\ last'.op = "HorizontalLayout"
             => InLine(World, last'.p, 1, last'.wnds, last'.grid)
        /\ last'.op = "VerticalLayout"
             => InLine(World, last'.p, 2, last'.wnds, last'.grid)
    ]_vars

\* HorizontalLayout has put three children into three columns, of which the
\* two with the left edge 1 are in the order of the child list and not in the
\* order of their numbers.
C22_Witness ==
    /\ last.op = "HorizontalLayout"
    /\ last.wnds = <<2, Extra, 3>>
    /\ m_upperleft[2][1] = 0
    /\ m_upperleft[3][1] = 1
    /\ m_upperleft[Extra][1] = 1
    /\ last.grid.columns = 3
    /\ last.grid.cells[Extra].column = 1
    /\ last.grid.cells[3].column = 2

\* C23: a step N.SetLayout(L) in which L is the installed layout of N or the
\* layout that contains N throws BadLayout and changes no field of any Wnd:
\* child lists, layout references and parent links are as before.
C23_SetLayoutRejects ==
    [][
        (/\ last'.op = "SetLayout"
         /\ \/ last'.c = GetLayout(World, last'.p)
            \/ last'.c = ContainingLayout(World, last'.p))
        => /\ last'.threw = "BadLayout"
           /\ UNCHANGED wndVars
    ]_vars

\* N.SetLayout(L) has thrown for the installed layout L of N, which has a
\* child.
C23_Witness ==
    /\ last.op = "SetLayout"
    /\ last.threw = "BadLayout"
    /\ m_layout[last.p] = last.c
    /\ m_children[last.c] # <<>>

----------------------------------------------------------------------------
\* Weak links to destroyed Wnds: SpecExpired.

NextExpired ==
    \/ \E n \in Nodes : EvCreate(n)
    \/ \E p, c \in Nodes : DoAttachChild(p, c)
    \/ \E d \in Nodes : Destroy(d)
    \/ \E n \in Nodes, ev \in PumpedEvents, move \in DragMoves : DoHandleEvent(n, ev, move)

SpecExpired == InitEvent /\ [][NextExpired]_vars

\* C24: when the parent of a live Wnd c has been destroyed, c.Parent() is
\* empty, c.ContainingLayout() is empty, and c.HandleEvent with any event that
\* can bubble returns having called filters and handlers of c alone, and
\* having changed no field of the destroyed Wnd.
C24_NoDispatchToDestroyed ==
    \A c \in Nodes :
        (life[c] = "live" /\ m_parent[c] # Null /\ life[m_parent[c]] = "dead")
        => /\ Parent(World, c) = Null
           /\ ContainingLayout(World, c) = Null
           /\ \A ev \in BubblingEvents, move \in DragMoves :
                 LET r == Dispatch(c, ev, move)
                 IN  /\ r.outcome = "returned"
                     /\ \A i \in DOMAIN r.log : r.log[i].at = c
                     /\ r.world.gui = gui
                     /\ \A f \in DOMAIN r.world \ {"gui"} :
                           r.world[f][m_parent[c]] = World[f][m_parent[c]]

\* The Layout 3 has been destroyed while its child 1, which forwards a click,
\* lives on, and a click has been dispatched to 1.
C24_Witness ==
    /\ last.op = "HandleEvent"
    /\ last.p = 1
    /\ last.ev = "LClick"
    /\ life[1] = "live"
    /\ m_parent[1] = 3
    /\ m_containing_layout[1] = 3
    /\ life[3] = "dead"
    /\ ~Interactive(World, 1)

----------------------------------------------------------------------------
\* The order of the child list: SpecOrder.

\* The place of the first element of s that is c.
FirstAt(s, c) == CHOOSE i \in 1..Len(s) : s[i] = c /\ \A j \in 1..(i - 1) : s[j] # c

\* s without its i-th element.
Erased(s, i) == SubSeq(s, 1, i - 1) \o SubSeq(s, i + 1, Len(s))

\* MoveChildUp that exchanges the child with the last one.
MoveChildUpSwapping(w, p, c) ==
    IF c = Null \/ c \notin Range(w.m_children[p]) THEN w
    ELSE LET cs == w.m_children[p]
             i == FirstAt(cs, c)
         IN  [w EXCEPT !.m_children[p] =
                 [cs EXCEPT ![i] = cs[Len(cs)], ![Len(cs)] = c]]

\* Wnd::MoveChildUp(Wnd*)
MoveChildUp(w, p, c) ==
    IF c = Null THEN w
    ELSE IF c \notin Range(w.m_children[p]) THEN w
    ELSE LET cs == w.m_children[p]
         IN  [w EXCEPT !.m_children[p] =
                 Erased(Append(cs, c), FirstAt(cs, c))]

\* Wnd::MoveChildDown(Wnd*)
MoveChildDown(w, p, c) ==
    IF c = Null THEN w
    ELSE IF c \notin Range(w.m_children[p]) THEN w
    ELSE LET cs == w.m_children[p]
         IN  [w EXCEPT !.m_children[p] =
                 Erased(<<c>> \o cs, FirstAt(cs, c) + 1)]

DoMoveChildUp(p, c) ==
    /\ life[p] = "live"
    /\ Becomes(MoveChildUp(World, p, c))
    /\ last' = [op |-> "MoveChildUp", p |-> p, c |-> c]

DoMoveChildDown(p, c) ==
    /\ life[p] = "live"
    /\ Becomes(MoveChildDown(World, p, c))
    /\ last' = [op |-> "MoveChildDown", p |-> p, c |-> c]

\* The Wnds whose child lists the callers reorder.
OrderCast == {1, 2}

NextOrder ==
    \/ \E p \in OrderCast, c \in GridCast : DoAttachChild(p, c)
    \/ \E p \in OrderCast, c \in GridCast \cup {Null} : DoMoveChildUp(p, c)
    \/ \E p \in OrderCast, c \in GridCast \cup {Null} : DoMoveChildDown(p, c)

SpecOrder == InitGrid /\ [][NextOrder]_vars

\* C25: a step P.MoveChildUp(C) for a child C of P turns P's child list into
\* the old list without C, followed by C; P.MoveChildDown(C) turns it into C
\* followed by the old list without C; for a null C or a C that is not a child
\* of P the list is unchanged.  Nothing else changes.
C25_MoveChildReorders ==
    [][
        (last'.op \in {"MoveChildUp", "MoveChildDown"}) =>
            LET P == last'.p
                C == last'.c
                old == m_children[P]
            IN  /\ m_children'[P] =
                      IF C = Null \/ C \notin Range(old) THEN old
                      ELSE IF last'.op = "MoveChildUp"
                      THEN Without(old, C) \o <<C>>
                      ELSE <<C>> \o Without(old, C)
                /\ \A q \in Objs \ {P} : m_children'[q] = m_children[q]
                /\ UNCHANGED <<life, m_parent, m_layout, m_containing_layout,
                               m_filters, m_filtering, m_flags, m_upperleft,
                               m_lowerright, m_min_size, m_max_size>>
    ]_vars

\* P.MoveChildUp(3) on a P with three children: 3 is the last child.
C25_Witness ==
    /\ last = [op |-> "MoveChildUp", p |-> 1, c |-> 3]
    /\ m_children[1] = <<Extra, 2, 3>>

----------------------------------------------------------------------------
\* Clicks and double clicks: SpecClick.

\* The events the pump of SpecClick delivers.
ClickEvents ==
    {"LClick", "LDoubleClick", "MClick", "MDoubleClick", "RClick", "RDoubleClick"}

NextClick ==
    \/ \E n \in Nodes : EvCreate(n)
    \/ \E p, c \in Nodes : EvAttachChild(p, c)
    \/ \E t, f \in Nodes : EvInstallEventFilter(t, f)
    \/ \E n \in Nodes, ev \in ClickEvents, move \in DragMoves : DoHandleEvent(n, ev, move)

SpecClick == InitEvent /\ [][NextClick]_vars

\* C26: for each button, the dispatch of a double click to a live Wnd makes
\* the same calls of filters and handlers, ends in the same way and leaves the
\* same state as the dispatch of the click of that button.
C26_DoubleClickIsClick ==
    \A n \in Nodes, move \in DragMoves :
        life[n] = "live" =>
            /\ Dispatch(n, "LDoubleClick", move) = Dispatch(n, "LClick", move)
            /\ Dispatch(n, "MDoubleClick", move) = Dispatch(n, "MClick", move)
            /\ Dispatch(n, "RDoubleClick", move) = Dispatch(n, "RClick", move)

\* A double click has been dispatched to Wnd 1, which is not interactive and
\* forwards it to its parent, the interactive Wnd 3, which handles it.
C26_Witness ==
    /\ last = [op |-> "HandleEvent", p |-> 1, ev |-> "LDoubleClick"]
    /\ m_parent[1] = 3
    /\ life[3] = "live"
    /\ Interactive(World, 3)
    /\ ~Interactive(World, 1)
    /\ m_filters[1] = <<>>
    /\ Visited(Dispatch(1, "LDoubleClick", <<1, 1>>).log) = <<1, 3>>

----------------------------------------------------------------------------
\* Drags, checked under SpecEvent.

\* The dispatch of the drag event ev with the move `move` to n moves n by
\* `move`, changes nothing else, and calls no handler but that of n.
DragMovesOnly(n, ev, move) ==
    LET r == Dispatch(n, ev, move)
    IN  /\ r.outcome = "returned"
        /\ Visited(r.log) = <<n>>
        /\ r.world = [World EXCEPT !.m_upperleft[n] = PtAdd(m_upperleft[n], move),
                                   !.m_lowerright[n] = PtAdd(m_lowerright[n], move)]

\* C27 as stated: the dispatch of a drag event of any button to a dragable Wnd
\* whose filters do not consume it moves the Wnd by the drag move, its size
\* unchanged, and does not forward the event to the parent.
C27_DragMovesDragable ==
    \A n \in Nodes, ev \in {"LDrag", "MDrag", "RDrag"}, move \in DragMoves :
        (/\ life[n] = "live"
         /\ Dragable(World, n)
         /\ NothingConsumed(Dispatch(n, ev, move).log, ev))
        => DragMovesOnly(n, ev, move)

\* C27, amended: the dispatch of a left-button drag event to a dragable Wnd
\* whose filters do not consume it moves the Wnd by the drag move, its size
\* unchanged, and does not forward the event to the parent, whether the Wnd
\* is interactive or not.
C27_LDragMovesDragable ==
    \A n \in Nodes, move \in DragMoves :
        (/\ life[n] = "live"
         /\ Dragable(World, n)
         /\ NothingConsumed(Dispatch(n, "LDrag", move).log, "LDrag"))
        => DragMovesOnly(n, "LDrag", move)

\* An LDrag has been dispatched to the dragable Wnd 2, which is not
\* interactive and has a live parent, and has moved it.
C27_Witness ==
    /\ last = [op |-> "HandleEvent", p |-> 2, ev |-> "LDrag"]
    /\ Dragable(World, 2)
    /\ ~Interactive(World, 2)
    /\ Parent(World, 2) # Null
    /\ m_upperleft[2] = <<1, 1>>
    /\ m_lowerright[2] = <<2, 2>>

----------------------------------------------------------------------------
\* RemoveLayout, checked under SpecLayout.

\* C28: a RemoveLayout step on a Wnd N whose installed layout is L leaves
\* N.GetLayout() empty, leaves every child that L had a direct child of N
\* with parent N and no containing layout, and leaves L out of N's child list.
C28_RemoveLayoutDropsLayout ==
    [][(last'.op = "RemoveLayout" /\ GetLayout(World, last'.p) # Null) =>
           LET n == last'.p
               l == GetLayout(World, n)
           IN  /\ m_layout'[n] = Null
               /\ \A c \in Range(m_children[l]) :
                      /\ c \in Range(m_children'[n])
                      /\ m_parent'[c] = n
                      /\ m_containing_layout'[c] = Null
               /\ l \notin Range(m_children'[n])]_vars

----------------------------------------------------------------------------
\* Layout functions on a Wnd that may have an installed layout: SpecRelayout.

\* The Wnds the callers attach, to Wnd 1 or to the Layout 3.
RelayoutCast == {2, 3, Extra}

\* The rectangles the callers give to the Wnds of the cast, as <<ul, lr>>,
\* and the ones they give to Wnd 1.
RelayoutRects ==
    {<< <<0, 0>>, <<1, 1>> >>, << <<1, 0>>, <<2, 1>> >>,
     << <<-1, 0>>, <<0, 1>> >>, << <<0, 0>>, <<3, 1>> >>}

\* The Wnds the callers place; Extra keeps the rectangle it was made with.
RelayoutPlaced == {1, 2, 3}

RelayoutParentRects == {<< <<0, 0>>, <<2, 1>> >>, << <<0, 0>>, <<1, 1>> >>}

\* The callers attach and place the Wnds and install the Layout 3, and then
\* call a layout function.
NextRelayout ==
    \/ \E p \in (IF life[Manufactured] = "none" THEN {1, 3} ELSE {}) :
           \E c \in RelayoutCast \ {p} : DoAttachChild(p, c)
    \/ \E n \in (IF life[Manufactured] = "none" THEN RelayoutPlaced ELSE {}) :
           \E r \in (IF n = 1 THEN RelayoutParentRects ELSE RelayoutRects) :
               DoGridPlace(n, r)
    \/ life[Manufactured] = "none" /\ DoSetLayout(1, 3)
    \/ DoGridLayout(1)
    \/ DoHorizontalLayout(1)
    \/ DoVerticalLayout(1)

SpecRelayout == InitGrid /\ [][NextRelayout]_vars

\* The rectangle of c has a negative upper left coordinate, or a lower right
\* coordinate beyond the client size of n.
OutOfBounds(n, c) ==
    \/ m_upperleft[c][1] < 0
    \/ m_upperleft[c][2] < 0
    \/ m_lowerright[c][1] > m_lowerright[n][1] - m_upperleft[n][1]
    \/ m_lowerright[c][2] > m_lowerright[n][2] - m_upperleft[n][2]

\* C29: after a step N.HorizontalLayout(), N.VerticalLayout() or
\* N.GridLayout() that returns, every Wnd that was a child of N before the
\* call with a rectangle out of N's bounds is a child of N with parent N and
\* is not a child of N's installed layout, and every other Wnd that was a
\* child of N before the call is a child of N's installed layout, which is a
\* Layout made by the call.
C29_OutOfBoundsUnmanaged ==
    [][(/\ last'.op \in {"HorizontalLayout", "VerticalLayout", "GridLayout"}
        /\ last'.threw = "none") =>
           LET n == last'.p
               l == m_layout'[n]
           IN  \A c \in Range(m_children[n]) :
                   IF OutOfBounds(n, c)
                   THEN /\ c \in Range(m_children'[n])
                        /\ m_parent'[c] = n
                        /\ l # Null => c \notin Range(m_children'[l])
                   ELSE /\ l = Manufactured
                        /\ life[Manufactured] = "none"
                        /\ c \in Range(m_children'[l])
                        /\ m_parent'[c] = l
                        /\ m_containing_layout'[c] = l]_vars

\* A GridLayout on Wnd 1 has left the child 2, which is out of bounds, with 1
\* and has given the child 3 to the Layout it made.
C29_Witness ==
    /\ last.op = "GridLayout"
    /\ last.threw = "none"
    /\ m_layout[1] = Manufactured
    /\ m_parent[2] = 1
    /\ m_upperleft[2] = <<-1, 0>>
    /\ m_parent[3] = Manufactured

\* No child of n is inside the client rectangle of n.
ZeroEligible(w, n) ==
    \A c \in Range(w.m_children[n]) :
        \/ w.m_upperleft[c][1] < 0
        \/ w.m_upperleft[c][2] < 0
        \/ w.m_lowerright[c][1] > ClientSize(w, n)[1]
        \/ w.m_lowerright[c][2] > ClientSize(w, n)[2]

\* C30 as stated: a step N.GridLayout() on an N none of whose children is
\* inside N's client rectangle, before the call and when the installed layout
\* has been removed, leaves N's child list, N's installed layout and the
\* parent links of N's children as they were.
C30_GridLayoutNoOp ==
    [][(/\ last'.op = "GridLayout"
        /\ ZeroEligible(World, last'.p)
        /\ ZeroEligible(RemoveLayout(World, last'.p), last'.p)) =>
           LET n == last'.p
           IN  /\ m_children'[n] = m_children[n]
               /\ m_layout'[n] = m_layout[n]
               /\ \A c \in Range(m_children[n]) : m_parent'[c] = m_parent[c]]_vars

\* C30, amended: a step N.GridLayout() on an N none of whose children is
\* inside N's client rectangle when the installed layout has been removed
\* does not throw, makes no Layout and changes what RemoveLayout changes and
\* nothing else; when N has no installed layout it changes no field of any
\* Wnd.
C30_GridLayoutOnlyRemovesLayout ==
    [][(/\ last'.op = "GridLayout"
        /\ ZeroEligible(RemoveLayout(World, last'.p), last'.p)) =>
           LET n == last'.p
           IN  /\ last'.threw = "none"
               /\ life'[Manufactured] = life[Manufactured]
               /\ IF GetLayout(World, n) = Null
                  THEN UNCHANGED wndVars
                  ELSE /\ m_layout' = [m_layout EXCEPT ![n] = Null]
                       /\ World' = RemoveLayout(World, n)]_vars

\* A GridLayout on Wnd 1, whose only child is out of bounds and which has no
\* installed layout, has changed nothing.
C30_Witness ==
    /\ last = [op |-> "GridLayout", p |-> 1, threw |-> "none",
               wnds |-> <<>>, grid |-> NoCells]
    /\ m_children[1] = <<2>>
    /\ m_upperleft[2] = <<-1, 0>>
    /\ m_layout[1] = Null
    /\ life[Manufactured] = "none"

----------------------------------------------------------------------------
\* Tree mutation together with the layout functions: SpecTree.

\* The Wnds of the scene: two Wnds and a Layout.
TreeCast == {1, 2, NumNodes}

\* The minimum size the callers give to the Layout.
TreeMinSize == <<2, 2>>

\* SetMinSize resizes a Wnd that is smaller, and the resize asks an installed
\* layout for ClientSize(): the call returns when there is no installed
\* layout or the chain of parents of n ends.
SetMinSizeReturns(w, n) == GetLayout(w, n) = Null \/ Rooted(w, n)

\* The callers attach and detach the Wnds, move Wnd 1 out of every client
\* rectangle, give the Layout a minimum size, install and remove layouts and
\* call the layout functions.
NextTree ==
    \/ \E p, c \in TreeCast : DoAttachChild(p, c)
    \/ \E p, c \in TreeCast : DoDetachChild(p, c)
    \/ \E p \in TreeCast : DoDetachChildren(p)
    \/ \E p \in TreeCast : DoSetLayout(p, NumNodes)
    \/ \E p \in TreeCast : DoRemoveLayout(p)
    \/ \E p \in TreeCast : DoDetachLayout(p)
    \/ DoMoveTo(1, MovedTo)
    \/ SetMinSizeReturns(World, NumNodes) /\ DoSetMinSize(NumNodes, TreeMinSize)
    \/ DoGridLayout(1)
    \/ DoHorizontalLayout(1)
    \/ DoVerticalLayout(1)

SpecTree == InitGrid /\ [][NextTree]_vars

\* Whenever N.GetLayout() returns L, L is in N's child list and L.Parent()
\* is N.
LayoutIsChild ==
    \A n \in Objs :
        (life[n] = "live" /\ GetLayout(World, n) # Null) =>
            /\ GetLayout(World, n) \in Range(m_children[n])
            /\ Parent(World, GetLayout(World, n)) = n

\* The rectangle of l is (0,0)-(client width, client height) of n.
FillsClient(n, l) ==
    /\ m_upperleft[l] = <<0, 0>>
    /\ m_lowerright[l] = ClientSize(World, n)

\* The last call was a layout function that has made a Layout for last.p.
LayoutMade ==
    /\ last.op \in {"HorizontalLayout", "VerticalLayout", "GridLayout"}
    /\ last.threw = "none"
    /\ m_layout[last.p] # Null

Fits(n, l, a) ==
    /\ m_min_size[l][a] <= ClientSize(World, n)[a]
    /\ ClientSize(World, n)[a] <= m_max_size[l][a]

----------------------------------------------------------------------------
\* Resizes with an installed and a containing layout: SpecResize.

\* Whether SizeMove(ul_, lr_) on n calls ChildSizeOrMinSizeChanged() on the
\* containing layout of n.
NotifiesContainingLayout(w, n, ul_, lr_) ==
    LET original_sz == Size(w, n)
        resized == original_sz # PtSub(lr_, ul_)
        rect == IF resized THEN ClampRectWithMinAndMaxSize(w, n, ul_, lr_)
                ELSE <<ul_, lr_>>
        size_changed == PtSub(rect[2], rect[1]) # original_sz
    IN  resized /\ size_changed /\ ~IsLayout(n) /\ ContainingLayout(w, n) # Null

\* The sizes, places and moves the callers pass.
ResizeSizes == {<<1, 1>>, <<2, 1>>}

ResizePlaces == {<<0, 0>>, <<1, 0>>}

ResizeMoves == {<<1, 0>>, <<0 - 1, 0>>}

\* The maximum size the callers give to Wnd 1.
ResizeMaxSize == <<1, 1>>

\* n.SizeMove(ul, lr), called as such or by Resize, MoveTo or OffsetMove.  The
\* model follows the Wnds to the corners 0 and 1.
DoSizeMoveAs(op, n, ul, lr) ==
    LET w == SizeMove(World, n, ul, lr)
    IN  /\ \A m \in Nodes : w.m_upperleft[m][1] \in {0, 1}
        /\ Becomes(w)
        /\ last' = [op |-> op, p |-> n,
                    notified |-> NotifiesContainingLayout(World, n, ul, lr)]

NextResize ==
    \/ DoSetLayout(1, NumNodes)
    \/ DoAttachChild(NumNodes, 2)
    \/ DoSetMaxSize(1, ResizeMaxSize)
    \/ \E n \in Nodes, ul \in ResizePlaces, sz \in ResizeSizes :
           DoSizeMoveAs("SizeMove", n, ul, PtAdd(ul, sz))
    \/ \E n \in Nodes, sz \in ResizeSizes :
           DoSizeMoveAs("Resize", n, m_upperleft[n], PtAdd(m_upperleft[n], sz))
    \/ \E n \in Nodes, pt \in ResizePlaces :
           DoSizeMoveAs("MoveTo", n, pt, PtAdd(pt, Size(World, n)))
    \/ \E n \in Nodes, pt \in ResizeMoves :
           DoSizeMoveAs("OffsetMove", n, PtAdd(m_upperleft[n], pt),
                        PtAdd(m_lowerright[n], pt))

SpecResize == InitGrid /\ [][NextResize]_vars

\* C32: a SizeMove, Resize, MoveTo or OffsetMove step on N changes the
\* rectangle of N's installed layout or notifies N's containing layout only
\* when the size of N after the call differs from its size before; when it
\* differs, the installed layout has the new client size of N as far as its
\* own minimum and maximum size allow; when it does
\* not, the step changes nothing but m_upperleft and m_lowerright of N and
\* notifies nobody.
C32_PropagatesOnlySizeChange ==
    [][last'.op \in {"SizeMove", "Resize", "MoveTo", "OffsetMove"} =>
           LET n == last'.p
               l == GetLayout(World, n)
               changed == PtSub(m_lowerright'[n], m_upperleft'[n]) # Size(World, n)
           IN  /\ last'.notified => changed
               /\ (/\ l # Null
                   /\ changed
                   /\ \A a \in {1, 2} :
                          /\ m_min_size[l][a] <= m_lowerright'[n][a] - m_upperleft'[n][a]
                          /\ m_lowerright'[n][a] - m_upperleft'[n][a] <= m_max_size[l][a]) =>
                      PtSub(m_lowerright'[l], m_upperleft'[l])
                          = PtSub(m_lowerright'[n], m_upperleft'[n])
               /\ ~changed =>
                      /\ ~last'.notified
                      /\ \A m \in Objs \ {n} :
                             /\ m_upperleft'[m] = m_upperleft[m]
                             /\ m_lowerright'[m] = m_lowerright[m]
                      /\ UNCHANGED <<life, m_parent, m_children, m_layout,
                                     m_containing_layout, m_filters, m_filtering,
                                     m_flags, m_min_size, m_max_size, m_done, gui>>]_vars

\* A Resize of Wnd 1, whose maximum size is (1,1) and whose layout 3 has
\* another size, has been clamped back to the size 1 had: 3 keeps its size.
C32_Witness ==
    /\ last = [op |-> "Resize", p |-> 1, notified |-> FALSE]
    /\ m_layout[1] = 3
    /\ m_max_size[1] = <<1, 1>>
    /\ Size(World, 1) = <<1, 1>>
    /\ Size(World, 3) = <<2, 1>>

\* C33: in every state, following Parent() from any live Wnd reaches a Wnd
\* without parent: no Wnd is its own ancestor.
C33_ParentRelationAcyclic ==
    \A n \in Objs : life[n] = "live" => Rooted(World, n)

\* C34: in every state, C is in P's child list exactly when C.Parent() is P,
\* a Wnd is in at most one child list and at most once in it, and the
\* containing layout of a Wnd, when it has one, is its parent.
C34_ChildListsMatchParents ==
    /\ \A p, c \in Objs :
           (life[p] = "live" /\ life[c] = "live") =>
               (c \in Range(m_children[p]) <=> Parent(World, c) = p)
    /\ \A c \in Objs :
           /\ Cardinality({p \in Objs : c \in Range(m_children[p])}) <= 1
           /\ \A p \in Objs : Count(m_children[p], c) <= 1
    /\ \A c \in Objs :
           (life[c] = "live" /\ ContainingLayout(World, c) # Null) =>
               ContainingLayout(World, c) = Parent(World, c)

\* RemoveLayout has moved Wnd 2 from the Layout 3 back to Wnd 1, behind 3.
C34_Witness ==
    /\ last = [op |-> "RemoveLayout", p |-> 1, c |-> 3]
    /\ m_children[1] = <<3, 2>>
    /\ m_children[3] = <<>>
    /\ m_parent[2] = 1
    /\ m_containing_layout[2] = Null

----------------------------------------------------------------------------
\* EndRun during a modal run, checked under SpecRun.

\* C35: from an EndRun() on a Wnd whose Run() has started, be it called by
\* the ModalInit hook or while Run() waits in GUI::RunModal, m_done of the
\* Wnd, which RunModal reads, is true until Run() returns: a Run() step whose
\* ModalInit hook calls EndRun() reaches RunModal with m_done true, an
\* EndRun() step on a Wnd in RunModal sets m_done, and m_done stays true
\* while the Wnd is in RunModal.
C35_EndRunEndsRun ==
    [][/\ (/\ last'.op = "Run"
           /\ last'.ret = "in RunModal"
           /\ World' = Run(World, last'.p, "EndRun").world) => m_done'[last'.p]
       /\ (last'.op = "EndRun" /\ last'.p \in Range(gui.modals)) => m_done'[last'.p]
       /\ \A n \in Nodes :
              (n \in Range(gui.modals) /\ m_done[n]) =>
                  (m_done'[n] \/ n \notin Range(gui'.modals))]_vars

----------------------------------------------------------------------------
\* GridLayout that throws, checked under SpecRelayout.

\* C36 as stated: a step N.GridLayout() that throws BadLayout leaves the
\* child lists, the installed layouts, the parents and the containing layouts
\* of all Wnds as they were.
C36_BadLayoutLeavesNode ==
    [][(last'.op = "GridLayout" /\ last'.threw = "BadLayout") =>
           UNCHANGED <<m_children, m_layout, m_parent, m_containing_layout>>]_vars

\* C36, amended: a step N.GridLayout() that throws BadLayout has made no
\* Layout and leaves all Wnds as RemoveLayout leaves them: as they were when N
\* had no installed layout; otherwise N has no installed layout, the Wnds
\* that were children of the layout are children of N behind N's other
\* children, and no other child list or link has changed.
C36_BadLayoutAfterRemoveLayout ==
    [][(last'.op = "GridLayout" /\ last'.threw = "BadLayout") =>
           LET n == last'.p
               l == GetLayout(World, n)
           IN  /\ life' = life
               /\ IF l = Null
                  THEN UNCHANGED wndVars
                  ELSE /\ m_layout'[n] = Null
                       /\ m_children'[l] = <<>>
                       /\ m_children'[n] = m_children[n] \o m_children[l]
                       /\ \A c \in Range(m_children[l]) :
                              m_parent'[c] = n /\ m_containing_layout'[c] = Null
                       /\ \A c \in Objs \ Range(m_children[l]) :
                              /\ m_parent'[c] = m_parent[c]
                              /\ m_containing_layout'[c] = m_containing_layout[c]
                       /\ \A c \in Objs \ {n, l} : m_children'[c] = m_children[c]
                       /\ \A c \in Objs \ {n} : m_layout'[c] = m_layout[c]
                       /\ UNCHANGED <<m_upperleft, m_lowerright, m_min_size,
                                      m_max_size, m_flags, m_filters, m_filtering,
                                      m_done, gui>>]_vars

\* GridLayout on Wnd 1 has thrown BadLayout for the Wnds 2 and Extra, which
\* have the same rectangle inside 1: they and the Layout 3, which is out of
\* bounds and has no children, are children of 1, and 1 has no installed
\* layout.
C36_Witness ==
    /\ last.op = "GridLayout"
    /\ last.p = 1
    /\ last.threw = "BadLayout"
    /\ m_children[1] = <<3, 2, Extra>>
    /\ m_children[3] = <<>>
    /\ m_upperleft[3] = <<0 - 1, 0>>
    /\ m_upperleft[2] = <<0, 0>> /\ m_lowerright[2] = <<1, 1>>
    /\ m_upperleft[Extra] = <<0, 0>> /\ m_lowerright[Extra] = <<1, 1>>
    /\ m_layout[1] = Null
    /\ life[Manufactured] = "none"

----------------------------------------------------------------------------
\* SetLayout on a Wnd with children and a previous layout: SpecSetLayout.

\* The Wnds the callers attach to Wnd 1 and the ones they place.
SetLayoutCast == {2, 3, Extra}

SetLayoutPlaced == {2, Extra}

\* The rectangles the callers give: inside Wnd 1, which is (0,0)-(1,1), and
\* beyond its right edge.
SetLayoutRects == {<< <<0, 0>>, <<1, 1>> >>, << <<1, 0>>, <<2, 1>> >>}

\* The callers attach and place the Wnds, let HorizontalLayout make a layout
\* for Wnd 1, and install the Layout 3.
NextSetLayout ==
    \/ \E c \in SetLayoutCast : DoAttachChild(1, c)
    \/ \E n \in SetLayoutPlaced, r \in SetLayoutRects : DoGridPlace(n, r)
    \/ DoHorizontalLayout(1)
    \/ DoSetLayout(1, 3)

SpecSetLayout == InitGrid /\ [][NextSetLayout]_vars

\* C37: a step N.SetLayout(L) that does not throw leaves L as N's installed
\* layout and as the last Wnd of N's child list; of the Wnds other than L that
\* were children of N or of N's previous layout, those with a rectangle
\* inside N's client rectangle have no parent and are in no child list of N,
\* and the others are the children of N before L, N's own in the order they
\* had and behind them those of the previous layout in theirs.
C37_SetLayoutKeepsOutsiders ==
    [][(last'.op = "SetLayout" /\ last'.threw = "none") =>
           LET n == last'.p
               l == last'.c
               old == GetLayout(World, n)
               before == m_children[n]
                             \o (IF old # Null THEN m_children[old] ELSE <<>>)
               others == SelectSeq(before, LAMBDA c : c # l)
               outside == SelectSeq(others, LAMBDA c : OutOfBounds(n, c))
           IN  /\ m_layout'[n] = l
               /\ m_parent'[l] = n
               /\ m_children'[n] = Append(outside, l)
               /\ \A c \in Range(others) :
                      IF OutOfBounds(n, c)
                      THEN m_parent'[c] = n
                      ELSE m_parent'[c] = Null /\ m_containing_layout'[c] = Null]_vars

\* SetLayout has installed the Layout 3 in Wnd 1, whose previous layout, made
\* by HorizontalLayout, is detached with Wnd 2, which is inside 1; Extra,
\* which is beyond 1's right edge, is the child before 3.
C37_Witness ==
    /\ last = [op |-> "SetLayout", p |-> 1, c |-> 3, threw |-> "none"]
    /\ m_children[1] = <<Extra, 3>>
    /\ m_layout[1] = 3
    /\ life[Manufactured] = "live"
    /\ m_parent[Manufactured] = Null
    /\ m_parent[2] = Null
    /\ m_lowerright[Extra] = <<2, 1>>

----------------------------------------------------------------------------
\* SetMinSize and SetMaxSize, checked under SpecGeom.

\* a <= b on both axes.
PtLeq(a, b) == a[1] <= b[1] /\ a[2] <= b[2]

\* C38: right after a step SetMinSize(m) the width and the height of the Wnd
\* are at least those of m, right after a step SetMaxSize(M) they are at most
\* those of M, whatever the other bound and the rectangle were; a step on a
\* Wnd whose size is within the new bound leaves its rectangle as it was.
C38_SetSizeBoundEnforced ==
    [][/\ last'.op = "SetMinSize" =>
              /\ PtLeq(m_min_size'[1], PtSub(m_lowerright'[1], m_upperleft'[1]))
              /\ PtLeq(m_min_size'[1], Size(World, 1)) =>
                     UNCHANGED <<m_upperleft, m_lowerright>>
       /\ last'.op = "SetMaxSize" =>
              /\ PtLeq(PtSub(m_lowerright'[1], m_upperleft'[1]), m_max_size'[1])
              /\ PtLeq(Size(World, 1), m_max_size'[1]) =>
                     UNCHANGED <<m_upperleft, m_lowerright>>]_vars

----------------------------------------------------------------------------
\* HotkeyManager: the conditional connections of the named shortcuts.
\* An entry of m_connections[name] is a ConditionalConnection:
\* [conn, connected, condition, blocked], where conn names the
\* boost::signals2 connection, connected is what connection.connected()
\* returns, condition is "null" for an empty std::function and otherwise what
\* condition() returns now, and blocked is the state of its blocker.

Connections == {1, 2, 3}
Conditions == {"null", "true", "false"}

\* The keys and modifier sets a shortcut is tried with: one key of each range
\* and each case that IsTypingSafe tells apart.
HotkeyKeys == {"GGK_INSERT", "GGK_UP", "GGK_F1", "GGK_F13", "GGK_TAB", "GGK_a"}
HotkeyMods == {{}, {"MOD_KEY_CTRL"}}

\* Hotkey::IsTypingSafe(key, mod): the keys of the two navigation ranges never
\* are; any other key with Ctrl, Alt or Meta is, and so are the function keys,
\* Tab, Escape and no key.
IsTypingSafe(key, mod) ==
    IF key \in {"GGK_INSERT", "GGK_HOME", "GGK_PAGEUP"} THEN FALSE
    ELSE IF key \in {"GGK_END", "GGK_PAGEDOWN", "GGK_UP"} THEN FALSE
    ELSE IF mod \cap {"MOD_KEY_CTRL", "MOD_KEY_ALT", "MOD_KEY_META"} # {} THEN TRUE
    ELSE IF key \in {"GGK_F1", "GGK_F12"} THEN TRUE
    ELSE IF key \in {"GGK_F13", "GGK_F24"} THEN TRUE
    ELSE IF key \in {"GGK_TAB", "GGK_ESCAPE", "GGK_NONE"} THEN TRUE
    ELSE FALSE

\* ConditionalConnection's constructor: the blocker is made and unblocked.
ConditionalConnection(conn, cond) ==
    [conn |-> conn, connected |-> TRUE, condition |-> cond, blocked |-> FALSE]

\* ConditionalConnection::UpdateConnection(): a connected entry is unblocked
\* when it has no condition or the condition holds, and blocked otherwise; a
\* disconnected entry is left alone.
UpdateConnection(e) ==
    IF e.connected
    THEN IF e.condition = "null" \/ e.condition = "true"
         THEN [e EXCEPT !.blocked = FALSE]
         ELSE [e EXCEPT !.blocked = TRUE]
    ELSE e

\* conds.erase(i): the list without its i-th entry; the iterator returned
\* stands at the same position i, on the entry that followed or at end().
Erase(conds, i) == [j \in 1..(Len(conds) - 1) |-> IF j < i THEN conds[j] ELSE conds[j + 1]]

\* What ++i does to an iterator that erase() returned as end(): the increment
\* has undefined behaviour: the sentinel node of a std::list leads back to
\* the first entry ("wrap"), and a checked build stops the program ("abort").
PastEndOutcomes == {"wrap", "abort"}

\* The loop of ProcessNamedShortcut from position i on: each entry reached is
\* updated; a disconnected one is erased and i is set to what erase() returns;
\* then ++i, also after an erasure. visits counts the calls of UpdateConnection
\* per connection, past_end says whether end() was incremented, returns
\* whether the loop came to its end.
RECURSIVE UpdateLoop(_, _, _, _, _)
UpdateLoop(conds, i, visits, past_end, ub) ==
    IF i = Len(conds) + 1
    THEN [conds |-> conds, visits |-> visits, past_end |-> past_end, returns |-> TRUE]
    ELSE LET e == UpdateConnection(conds[i])
             v == [visits EXCEPT ![e.conn] = @ + 1]
         IN  IF e.connected
             THEN UpdateLoop([conds EXCEPT ![i] = e], i + 1, v, past_end, ub)
             ELSE IF i <= Len(conds) - 1
                  THEN UpdateLoop(Erase(conds, i), i + 1, v, past_end, ub)
                  ELSE IF ub = "abort"
                       THEN [conds |-> Erase(conds, i), visits |-> v,
                             past_end |-> TRUE, returns |-> FALSE]
                       ELSE UpdateLoop(Erase(conds, i), 1, v, TRUE, ub)

NoVisits == [conn \in Connections |-> 0]

\* The connections that the lists of the manager hold.
Registered(mgr) ==
    UNION {{mgr.m_connections[name][i].conn : i \in DOMAIN mgr.m_connections[name]} :
               name \in HotkeyNames}

\* HotkeyManager::NamedSignal(name): makes the signal of the name if there is
\* none.
DoNamedSignal(name) ==
    /\ s_singleton' = [s_singleton EXCEPT !.m_signals = @ \cup {name}]
    /\ last' = [op |-> "NamedSignal", name |-> name]
    /\ UNCHANGED <<wndVars, instance>>

\* HotkeyManager::AddConditionalConnection(name, conn, cond): a new entry at
\* the end of the list of the name.
DoAddConditionalConnection(name, conn, cond) ==
    /\ conn \notin Registered(s_singleton)
    /\ \A other \in Connections : other < conn => other \in Registered(s_singleton)
    /\ s_singleton' = [s_singleton EXCEPT !.m_connections[name] =
                           Append(@, ConditionalConnection(conn, cond))]
    /\ last' = [op |-> "AddConditionalConnection", name |-> name]
    /\ UNCHANGED <<wndVars, instance>>

\* The signal side disconnects the connection of the i-th entry of a list.
DoDisconnect(name, i) ==
    /\ i \in DOMAIN s_singleton.m_connections[name]
    /\ s_singleton.m_connections[name][i].connected
    /\ s_singleton' = [s_singleton EXCEPT !.m_connections[name][i].connected = FALSE]
    /\ last' = [op |-> "disconnect", name |-> name]
    /\ UNCHANGED <<wndVars, instance>>

\* The program state that the condition of the i-th entry tests changes.
DoConditionChanges(name, i) ==
    /\ i \in DOMAIN s_singleton.m_connections[name]
    /\ s_singleton.m_connections[name][i].condition # "null"
    /\ s_singleton' = [s_singleton EXCEPT !.m_connections[name][i].condition =
                           IF @ = "true" THEN "false" ELSE "true"]
    /\ last' = [op |-> "condition", name |-> name]
    /\ UNCHANGED <<wndVars, instance>>

\* HotkeyManager::ProcessNamedShortcut(name, key, mod), with typing for what
\* GUI::FocusWndAcceptsTypingInput() returns: false for a key combination
\* that is not typing-safe while typing; otherwise the loop over the list of
\* the name, and then the named signal is emitted and its value returned
\* ("signal"); m_signals[name] is a null pointer when NamedSignal(name) was
\* never called ("null signal").
DoProcessNamedShortcut(name, key, mod, typing) ==
    /\ UNCHANGED <<wndVars, instance>>
    /\ IF typing /\ ~IsTypingSafe(key, mod)
       THEN /\ UNCHANGED s_singleton
            /\ last' = [op |-> "ProcessNamedShortcut", name |-> name,
                        typing |-> typing, safe |-> FALSE, returned |-> "false",
                        visits |-> NoVisits, past_end |-> FALSE]
       ELSE \E ub \in PastEndOutcomes :
                \E r \in {UpdateLoop(s_singleton.m_connections[name], 1, NoVisits, FALSE, ub)} :
                    /\ s_singleton' = [s_singleton EXCEPT !.m_connections[name] = r.conds]
                    /\ last' = [op |-> "ProcessNamedShortcut", name |-> name,
                                typing |-> typing, safe |-> IsTypingSafe(key, mod),
                                returned |-> IF ~r.returns THEN "aborted"
                                             ELSE IF name \in s_singleton.m_signals
                                                  THEN "signal" ELSE "null signal",
                                visits |-> r.visits, past_end |-> r.past_end]

NextHotkeys ==
    \/ \E name \in HotkeyNames : DoNamedSignal(name)
    \/ \E name \in HotkeyNames, conn \in Connections, cond \in Conditions :
           DoAddConditionalConnection(name, conn, cond)
    \/ \E name \in HotkeyNames, i \in Connections : DoDisconnect(name, i)
    \/ \E name \in HotkeyNames, i \in Connections : DoConditionChanges(name, i)
    \/ \E name \in HotkeyNames, key \in HotkeyKeys, mod \in HotkeyMods, typing \in BOOLEAN :
           DoProcessNamedShortcut(name, key, mod, typing)

SpecHotkeys == InitFlags /\ [][NextHotkeys]_vars

\* The connected entries of a list, in their order.
Connected(conds) == SelectSeq(conds, LAMBDA e : e.connected)

\* C39: a step ProcessNamedShortcut(name, key, mod) made while the focus Wnd
\* accepts typing with a key combination that is not typing-safe returns
\* false and leaves every list of connections as it was. Any other such step
\* calls UpdateConnection exactly once on each entry the list of the name had
\* and on no other connection, never increments end(), reaches the emission
\* of the signal, leaves in the list the connected entries in their order,
\* each blocked exactly if its condition is false.
C39_ShortcutUpdatesEveryConnection ==
    [][last'.op = "ProcessNamedShortcut" =>
          IF last'.typing /\ ~last'.safe
          THEN last'.returned = "false" /\ UNCHANGED s_singleton
          ELSE LET name == last'.name
                   was == s_singleton.m_connections[name]
               IN  /\ ~last'.past_end
                   /\ last'.returned # "aborted"
                   /\ \A conn \in Connections :
                          last'.visits[conn] =
                              IF \E i \in DOMAIN was : was[i].conn = conn THEN 1 ELSE 0
                   /\ Len(s_singleton'.m_connections[name]) = Len(Connected(was))
                   /\ \A i \in DOMAIN Connected(was) :
                          s_singleton'.m_connections[name][i] =
                              [Connected(was)[i] EXCEPT
                                  !.blocked = (Connected(was)[i].condition = "false")]]_vars

====
